---- MODULE Spec2Model ----
(***************************************************************************)
(* SafeTranscript: on-device PII detection (GLiNER) and anonymization.     *)
(*                                                                         *)
(* The module models, from the TypeScript sources,                         *)
(*   - the inference orchestrator (initGLiNER / disposeGLiNER / detectPII, *)
(*     runInference, detectPIIChunked) as asynchronous tasks that          *)
(*     interleave at their await points,                                   *)
(*   - the decoder (token-level decoding, greedy overlap resolution),      *)
(*   - the batch processor (word splitting, token sequences, words mask,   *)
(*     span enumeration, padding),                                         *)
(*   - the anonymization layer (hybrid and regex-only) and its reverse,    *)
(*   - the tokenizer (Unigram and BPE word encoding),                      *)
(*   - the model manager's IndexedDB store (check, load, download, delete),*)
(*   - the runtime provider (getOrt).                                      *)
(*                                                                         *)
(* Strings are sequences of one-character strings with 0-based JavaScript  *)
(* offsets; a placeholder `<type n>` is the five symbols                   *)
(* "<", type, " ", digit, ">".                                             *)
(***************************************************************************)
EXTENDS Integers, Sequences, FiniteSets, TLC

(***************************************************************************)
(* Bounds of the model.                                                    *)
(***************************************************************************)
\* number of asynchronous calls that may be in flight in one behaviour
NumTasks == 2
\* cap on InferenceSession.create invocations in one behaviour
MaxSessions == 2
\* longest input text, in characters (orchestrator / detection runs)
MaxTextLen == 5
\* word ceiling before chunking, span mode (200 in the source) and token
\* mode (500 in the source), and the window overlap (50 in the source),
\* scaled down so that windows of a short text overlap
SpanMaxWords == 2
TokenMaxWords == 3
OVERLAP == 1
\* candidates one inference run may propose before greedySearch
MaxCand == 2

(***************************************************************************)
(* JavaScript string primitives.                                           *)
(***************************************************************************)
WhiteSpace == {" "}
\* \w of a JavaScript regular expression, over the characters the model uses
WordChars == {"a", "b", "A", "B", "1", "_"}
IsSpace(c) == c \in WhiteSpace
IsWordChar(c) == c \in WordChars

Min(a, b) == IF a < b THEN a ELSE b
Max(a, b) == IF a > b THEN a ELSE b

\* String.prototype.slice(a, b): negative offsets count from the end
SliceIndex(n, x) == IF x < 0 THEN Max(n + x, 0) ELSE Min(x, n)
Slice(s, a, b) ==
  LET na == SliceIndex(Len(s), a)
      nb == SliceIndex(Len(s), b)
  IN IF na < nb THEN SubSeq(s, na + 1, nb) ELSE <<>>

\* whether p occurs in s at 0-based offset k
OccursAt(s, p, k) ==
  /\ k >= 0
  /\ k + Len(p) <= Len(s)
  /\ \A j \in 1..Len(p) : s[k + j] = p[j]

\* String.prototype.indexOf(p, from)
IndexOf(s, p, from) ==
  LET f == Min(Max(from, 0), Len(s))
      hits == {k \in f..Len(s) : OccursAt(s, p, k)}
  IN IF hits = {} THEN -1
     ELSE CHOOSE k \in hits : \A m \in hits : k <= m

RECURSIVE SplitWSFrom(_, _, _, _)
SplitWSFrom(s, i, cur, acc) ==
  IF i > Len(s) THEN Append(acc, cur)
  ELSE IF IsSpace(s[i])
       THEN LET rest == {j \in i..Len(s) : ~IsSpace(s[j])}
                nxt == IF rest = {} THEN Len(s) + 1
                       ELSE CHOOSE j \in rest : \A m \in rest : j <= m
            IN SplitWSFrom(s, nxt, <<>>, Append(acc, cur))
       ELSE SplitWSFrom(s, i + 1, Append(cur, s[i]), acc)

\* text.split(/\s+/): "" gives [""], leading or trailing whitespace gives ""
SplitWS(s) == SplitWSFrom(s, 1, <<>>, <<>>)

RECURSIVE Join(_, _)
\* Array.prototype.join(sep)
Join(ws, sep) ==
  IF Len(ws) = 0 THEN <<>>
  ELSE IF Len(ws) = 1 THEN ws[1]
  ELSE ws[1] \o sep \o Join(Tail(ws), sep)

RECURSIVE InsertIdx(_, _, _)
\* index i placed before the first index whose key is greater, else last
InsertIdx(r, i, keys) ==
  IF r = <<>> THEN <<i>>
  ELSE IF keys[i] < keys[Head(r)] THEN <<i>> \o r
  ELSE <<Head(r)>> \o InsertIdx(Tail(r), i, keys)

RECURSIVE SortedIdx(_, _)
SortedIdx(n, keys) ==
  IF n = 0 THEN <<>> ELSE InsertIdx(SortedIdx(n - 1, keys), n, keys)

\* Array.prototype.sort((a, b) => key(a) - key(b)): ascending and stable
StableSortByKey(s, keys) ==
  LET perm == SortedIdx(Len(s), keys)
  IN [k \in 1..Len(s) |-> s[perm[k]]]

RECURSIVE SeqsUpTo(_, _)
\* all sequences over S of length at most n
SeqsUpTo(S, n) ==
  IF n = 0 THEN {<<>>}
  ELSE LET shorter == SeqsUpTo(S, n - 1)
       IN shorter \cup {Append(q, x) : q \in {r \in shorter : Len(r) = n - 1}, x \in S}

(***************************************************************************)
(* Batch processor: word splitting (processor.ts, splitWords).             *)
(***************************************************************************)
RECURSIVE WordEnd(_, _)
\* last character (1-based) of the match of \w+(?:[-_]\w+)* that starts at i
WordEnd(s, i) ==
  LET stops == {j \in i..Len(s) : ~IsWordChar(s[j])}
      r == IF stops = {} THEN Len(s)
           ELSE (CHOOSE j \in stops : \A m \in stops : j <= m) - 1
  IN IF r + 2 <= Len(s) /\ s[r + 1] \in {"-", "_"} /\ IsWordChar(s[r + 2])
     THEN WordEnd(s, r + 2)
     ELSE r

RECURSIVE SplitWordsFrom(_, _, _)
SplitWordsFrom(s, i, acc) ==
  IF i > Len(s) THEN acc
  ELSE IF IsSpace(s[i]) THEN SplitWordsFrom(s, i + 1, acc)
  ELSE LET e == IF IsWordChar(s[i]) THEN WordEnd(s, i) ELSE i
       IN SplitWordsFrom(s, e + 1,
            Append(acc, [word |-> SubSeq(s, i, e), start |-> i - 1, end |-> e]))

\* /\w+(?:[-_]\w+)*|\S/g : the words of a text with their character offsets
SplitWords(s) == SplitWordsFrom(s, 1, <<>>)

(***************************************************************************)
(* Decoder: greedy overlap resolution (decoder.ts, greedySearch).          *)
(***************************************************************************)
\* a test that finds no two ranges overlapping
NeverOverlaps(c, a) == FALSE

\* half-open interval overlap test of greedySearch
Overlaps(c, a) == c.start < a.end /\ c.end > a.start

RECURSIVE GreedyAccept(_, _)
GreedyAccept(sorted, accepted) ==
  IF sorted = <<>> THEN accepted
  ELSE LET c == Head(sorted)
       IN IF \E k \in 1..Len(accepted) : Overlaps(c, accepted[k])
          THEN GreedyAccept(Tail(sorted), accepted)
          ELSE GreedyAccept(Tail(sorted), Append(accepted, c))

SortByStart(es) == StableSortByKey(es, [k \in 1..Len(es) |-> es[k].start])

GreedySearch(candidates) ==
  LET sorted == StableSortByKey(candidates,
                  [k \in 1..Len(candidates) |-> 0 - candidates[k].score])
  IN SortByStart(GreedyAccept(sorted, <<>>))

(***************************************************************************)
(* Configuration (config.ts) and the stored model files.                   *)
(***************************************************************************)
\* entity labels passed to the model (a prefix of PII_LABELS)
Labels == <<"person", "email address">>
LabelRank(l) == CHOOSE k \in 1..Len(Labels) : Labels[k] = l
\* sigmoid scores (per mille) the session's output may hold for a span
Scores == {350, 600, 900}
\* DEFAULT_THRESHOLD (per mille)
DEFAULT_THRESHOLD == 400
\* a call of detectPII that passes no threshold
NoThreshold == 0 - 1
\* the parameter `threshold: number = DEFAULT_THRESHOLD` of detectPII
ThresholdParam(arg) == IF arg = NoThreshold THEN DEFAULT_THRESHOLD ELSE arg
\* the decoders' test of a score: decodeSpanLevel keeps bestScore > threshold,
\* decodeTokenLevel keeps start and end scores >= threshold
PassesThreshold(sc, th, span) == IF span THEN sc > th ELSE sc >= th
\* DEFAULT_CONFIG.maxWidth
DefaultMaxWidth == 12
DefaultSpanMode == "markerV0"

\* The model variants a store may hold.  A variant fixes span_mode of
\* gliner_config.json ("" when the field is absent) and whether the ONNX
\* graph declares the inputs span_idx / span_mask.
Variants == {1, 2, 3, 4, 5}
RawSpanMode(v) ==
  CASE v \in {1, 4} -> "token_level" [] v \in {2, 5} -> "markerV0" [] OTHER -> ""
SessionHasSpanInputs(v) == v \in {2, 3, 4}

\* a stored blob is 0 when idbGet gives undefined, the number of the model
\* variant it belongs to, or FalsyJson: a JSON body other than null that
\* JavaScript treats as false (false, 0, "")
FalsyJson == 0 - 1
Truthy(x) == x # 0 /\ x # FalsyJson

NoFiles == [model |-> 0, tokenizer |-> 0, glinerConfig |-> 0]
FullStore(v) == [model |-> v, tokenizer |-> v, glinerConfig |-> v]

\* checkGLiNERModelExists: all three blobs are present
CheckGLiNERModelExists(st) ==
  st.model # 0 /\ st.tokenizer # 0 /\ st.glinerConfig # 0

\* the values loadGLiNERModelFiles may resolve with: the three blobs, or null
\* (NoFiles) when one is missing or IndexedDB raises
LoadGLiNERModelFiles(st) ==
  IF Truthy(st.model) /\ Truthy(st.tokenizer) /\ Truthy(st.glinerConfig)
  THEN {st, NoFiles}
  ELSE {NoFiles}

\* _config as parsed by initGLiNER from gliner_config.json
ParseConfig(v) ==
  [spanMode |-> IF RawSpanMode(v) # "" THEN RawSpanMode(v) ELSE DefaultSpanMode,
   maxWidth |-> DefaultMaxWidth]

ConfigSaysSpan(cfg) == cfg.spanMode = "markerV0" \/ cfg.spanMode = "span_level"

(***************************************************************************)
(* What one inference run can return: the session's output is not          *)
(* determined by the program, so the candidates the decoder pushes are a   *)
(* choice over the word spans of the run's text; greedySearch is applied   *)
(* to them as in decodeSpanLevel / decodeTokenLevel.                       *)
(***************************************************************************)
SingleCandidates(t, width, span, th) ==
  LET ws == SplitWords(t)
      n == Len(ws)
      spans == {p \in (1..n) \X (1..n) :
                  p[1] <= p[2] /\ (span => p[2] - p[1] < width)}
  IN {[text |-> Slice(t, ws[p[1]].start, ws[p[2]].end), label |-> Labels[l],
       start |-> ws[p[1]].start, end |-> ws[p[2]].end, score |-> sc] :
        p \in spans, l \in 1..Len(Labels),
        sc \in {x \in Scores : PassesThreshold(x, th, span)}}

RECURSIVE SubsetsUpTo(_, _)
\* the subsets of S with at most k elements
SubsetsUpTo(S, k) ==
  IF k = 0 THEN {{}}
  ELSE LET smaller == SubsetsUpTo(S, k - 1)
       IN smaller \cup {T \cup {x} : T \in smaller, x \in S}

\* the order in which the decoders push candidates: decodeSpanLevel by
\* span (start word, then end word), decodeTokenLevel by start word, then
\* label, then end word
CandKey(c, n, span) ==
  IF span
  THEN (c.start * (n + 1) + c.end) * (Len(Labels) + 1) + LabelRank(c.label)
  ELSE (c.start * (Len(Labels) + 1) + LabelRank(c.label)) * (n + 1) + c.end

RECURSIVE SeqOfCands(_, _, _)
SeqOfCands(S, n, span) ==
  IF S = {} THEN <<>>
  ELSE LET c == CHOOSE x \in S : \A y \in S : CandKey(x, n, span) <= CandKey(y, n, span)
       IN <<c>> \o SeqOfCands(S \ {c}, n, span)

\* one candidate per (span, label); span mode keeps one label per span
CandidateLists(t, width, span, th) ==
  LET sets == {S \in SubsetsUpTo(SingleCandidates(t, width, span, th), MaxCand) :
                 \A x, y \in S :
                   (x.start = y.start /\ x.end = y.end /\ (span \/ x.label = y.label))
                     => x = y}
  IN {SeqOfCands(S, Len(t), span) : S \in sets}

RunResults(t, width, span, th) ==
  {GreedySearch(c) : c \in CandidateLists(t, width, span, th)}

(***************************************************************************)
(* State.                                                                  *)
(***************************************************************************)
VARIABLES
  text,         \* the input text of the calls of this behaviour
  store,        \* the persisted model blobs (IndexedDB)
  ortLib,       \* onnxRuntime.web.ts: "unloaded", "loading", "loaded", "failed"; in SpecOrt the provider module in full
  sessions,     \* the executor sessions constructed so far
  session,      \* _session: 0 is null, else an index of sessions
  ort,          \* _ort of the orchestrator: TRUE once the runtime is assigned
  config,       \* _config
  initialized,  \* _initialized
  isSpanMode,   \* _isSpanMode
  tokenizer,    \* _tokenizer of tokenizer.ts: 0 is null, else the variant
  tasks,        \* the asynchronous calls: one record per call slot
  allMatches,   \* anonymization: the detections collected so far
  anonymized,   \* anonymization: the text being rewritten
  mappings,     \* anonymization: placeholder -> original, in insertion order
  texts,        \* processor: the texts handed to prepareSpanBatch
  maxWidth,     \* processor: the maxWidth argument
  batch,        \* processor: what prepareSpanBatch produced
  tokCall,      \* tokenizer: the last call of an exported function
  decode,       \* decoder: a call of greedySearch
  win           \* detectPIIChunked: the windows of one call, by word index

orchVars == <<store, ortLib, sessions, session, ort, config, initialized,
              isSpanMode, tokenizer>>
anonVars == <<allMatches, anonymized, mappings>>
procVars == <<texts, maxWidth, batch, tokCall, decode, win>>
vars == <<text, orchVars, tasks, anonVars, procVars>>

Tasks == 1..NumTasks

DefaultConfig == [spanMode |-> DefaultSpanMode, maxWidth |-> DefaultMaxWidth]

NoBatch == [status |-> "none"]

NoWindows == [status |-> "none", n |-> 0, chunkSize |-> 0, i |-> 0, windows |-> <<>>]

NoDecode == [status |-> "none", candidates |-> <<>>, result |-> <<>>]

NoCall == [fn |-> "none", word |-> <<>>, on |-> 0, status |-> "none", value |-> <<>>]

NoSession == [state |-> "none", model |-> 0, by |-> "none"]

IdleTask ==
  [kind |-> "none", pc |-> "idle", status |-> "idle",
   files |-> NoFiles,   \* initGLiNER: const files
   cold |-> FALSE,      \* detectPII found the orchestrator not ready
   sess |-> 0,          \* the session InferenceSession.create is constructing
   found |-> 0,         \* the session disposeGLiNER is releasing
   runOn |-> 0,         \* the session whose run() is awaited
   span |-> FALSE,      \* runInference took the span branch
   arg |-> NoThreshold, \* detectPII: the threshold the caller passed
   threshold |-> 0,     \* the threshold handed to the decoder
   chunked |-> FALSE,   \* detectPII took the chunked path
   maxWords |-> 0,      \* chunkSize of detectPIIChunked
   i |-> 0,             \* detectPIIChunked: loop index
   chunk |-> <<>>,      \* the text handed to runInference
   off |-> 0,           \* chunkStartChar
   acc |-> <<>>,        \* allEntities
   seen |-> {},         \* seenSpans
   dups |-> 0,          \* history: entities the seenSpans test skipped
   path |-> "none",     \* anonymizeTranscription: "hybrid" or "regex"
   at |-> NoFiles,      \* history: the store when a model-manager call settled
   res |-> <<>>]        \* the value the call resolved with

Pc(t) == tasks[t].pc
NumCreated == Cardinality({k \in DOMAIN sessions : sessions[k].state # "none"})

\* a call slot is free before its first call and after its call settled
Free(t) == tasks[t].status # "running"

\* the call of task t settles
Resolve(rec, value) == [rec EXCEPT !.pc = "done", !.status = "resolved", !.res = value]
Reject(rec) == [rec EXCEPT !.pc = "done", !.status = "rejected"]

(***************************************************************************)
(* Inference orchestrator (GLiNERInference.web.ts).  A call runs           *)
(* synchronously up to its next await; every action below is one such      *)
(* stretch of one call.                                                    *)
(***************************************************************************)
\* detectPII: if (!_initialized || !_session) await initGLiNER()
NeedsInit == ~initialized \/ session = 0

\* runInference up to `await _session.run(feeds)`; preparing the batch
\* raises when the tokenizer was never initialized
RunCall(rec, t) ==
  IF session = 0 \/ ~ort \/ tokenizer = 0
  THEN Reject(rec)
  ELSE [rec EXCEPT !.pc = "run", !.runOn = session, !.span = isSpanMode,
                   !.threshold = ThresholdParam(rec.arg), !.chunk = t]

\* a window loop whose windows follow one another without overlap
NoOverlapStep(i, chunkSize, overlap) == i + chunkSize

\* detectPIIChunked: i += chunkSize - OVERLAP
NextWindow(i, chunkSize, overlap) == i + chunkSize - overlap
\* detectPIIChunked: the end of words.slice(i, i + chunkSize)
WindowEnd(i, chunkSize, n) == Min(i + chunkSize, n)

\* chunkStartChar of detectPIIChunked for the window that starts at word i
ChunkStartChar(words, i) ==
  IndexOf(text, words[i + 1], IF i > 0 THEN IndexOf(text, words[i], 0) ELSE 0)

\* detectPIIChunked: the window at rec.i, up to its await of runInference
ChunkCall(rec) ==
  LET words == SplitWS(text)
      chunkWords == SubSeq(words, rec.i + 1, WindowEnd(rec.i, rec.maxWords, Len(words)))
  IN RunCall([rec EXCEPT !.off = ChunkStartChar(words, rec.i)],
             Join(chunkWords, <<" ">>))

\* detectPII after the initialization check
DetectBody(rec) ==
  IF session = 0 THEN Reject(rec)
  ELSE LET maxWords == IF isSpanMode THEN SpanMaxWords ELSE TokenMaxWords
       IN IF Len(SplitWS(text)) > maxWords
          THEN ChunkCall([rec EXCEPT !.chunked = TRUE, !.maxWords = maxWords,
                                     !.i = 0])
          ELSE RunCall(rec, text)

\* where the caller of detectPII continues once detectPII has settled.
\* anonymizeTranscription returns the promise of anonymizeHybrid from inside
\* its try block without awaiting it, so its catch clause never sees a
\* rejection of detectPII: the rejection settles the anonymize call
AfterDetect(rec) ==
  IF rec.kind = "anonymize" /\ rec.pc = "done" /\ rec.status = "resolved"
  THEN [rec EXCEPT !.pc = "hybrid_resume", !.status = "running"]
  ELSE rec

\* detectPII up to its first await
DetectCall(rec) ==
  IF NeedsInit
  THEN [rec EXCEPT !.cold = TRUE, !.pc = "init_load"]
  ELSE AfterDetect(DetectBody(rec))

StartInit(t) ==
  /\ Free(t)
  /\ tasks' = [tasks EXCEPT ![t] =
       [IdleTask EXCEPT !.kind = "init", !.status = "running", !.pc = "init_load"]]
  /\ UNCHANGED <<text, procVars, orchVars, anonVars>>

StartDetect(t) ==
  /\ Free(t)
  /\ tasks' = [tasks EXCEPT ![t] =
       DetectCall([IdleTask EXCEPT !.kind = "detect", !.status = "running"])]
  /\ UNCHANGED <<text, procVars, orchVars, anonVars>>

\* detectPII(text, labels, threshold) with an explicit threshold
StartDetectWith(t, th) ==
  /\ Free(t)
  /\ tasks' = [tasks EXCEPT ![t] =
       DetectCall([IdleTask EXCEPT !.kind = "detect", !.status = "running",
                                   !.arg = th])]
  /\ UNCHANGED <<text, procVars, orchVars, anonVars>>

\* initTokenizer(files.tokenizerJson): replaces the tokenizer
InitTokenizer(tokenizerJson) == tokenizerJson

\* initGLiNER from the return of loadGLiNERModelFiles to `await getOrt()`
InitLoaded(t) ==
  /\ Pc(t) = "init_load"
  /\ \E files \in LoadGLiNERModelFiles(store) :
       IF files = NoFiles
       THEN /\ tasks' = [tasks EXCEPT ![t] = AfterDetect(Reject(@))]
            /\ UNCHANGED <<tokenizer, config, isSpanMode, ortLib>>
       ELSE /\ tokenizer' = InitTokenizer(files.tokenizer)
            /\ config' = ParseConfig(files.glinerConfig)
            /\ isSpanMode' = ConfigSaysSpan(ParseConfig(files.glinerConfig))
            /\ ortLib' = IF ortLib = "unloaded" THEN "loading" ELSE ortLib
            /\ tasks' = [tasks EXCEPT ![t] = [@ EXCEPT !.files = files,
                                                       !.pc = "init_ort"]]
  /\ UNCHANGED <<text, procVars, store, sessions, session, ort, initialized, anonVars>>

\* the runtime script finishes loading, or fails to
OrtScriptSettles ==
  /\ ortLib = "loading"
  /\ ortLib' \in {"loaded", "failed"}
  /\ UNCHANGED <<text, procVars, store, sessions, session, ort, config, initialized,
                 isSpanMode, tokenizer, tasks, anonVars>>

\* initGLiNER from the return of getOrt to `await InferenceSession.create`
InitOrt(t) ==
  /\ Pc(t) = "init_ort"
  /\ ortLib \in {"loaded", "failed"}
  /\ IF ortLib = "failed"
     THEN /\ tasks' = [tasks EXCEPT ![t] = AfterDetect(Reject(@))]
          /\ UNCHANGED <<ort, sessions>>
     ELSE /\ NumCreated < MaxSessions
          /\ ort' = TRUE
          /\ sessions' = [sessions EXCEPT ![NumCreated + 1] =
               [state |-> "pending", model |-> tasks[t].files.model,
                by |-> IF tasks[t].kind = "init" THEN "init" ELSE "detect"]]
          /\ tasks' = [tasks EXCEPT ![t] = [@ EXCEPT !.sess = NumCreated + 1,
                                                     !.pc = "init_create"]]
  /\ UNCHANGED <<text, procVars, store, ortLib, session, config, initialized, isSpanMode,
                 tokenizer, anonVars>>

\* initGLiNER from the return of InferenceSession.create to its end
InitCreated(t) ==
  /\ Pc(t) = "init_create"
  /\ \E ok \in BOOLEAN :
       LET id == tasks[t].sess
       IN IF ~ok
          THEN /\ sessions' = [sessions EXCEPT ![id].state = "failed"]
               /\ tasks' = [tasks EXCEPT ![t] = AfterDetect(Reject(@))]
               /\ UNCHANGED <<session, isSpanMode, initialized>>
          ELSE /\ sessions' = [sessions EXCEPT ![id].state = "live"]
               /\ session' = id
               /\ isSpanMode' = IF SessionHasSpanInputs(sessions[id].model)
                                THEN TRUE ELSE isSpanMode
               /\ initialized' = TRUE
               /\ tasks' = [tasks EXCEPT ![t] =
                    IF @.kind = "init" THEN Resolve(@, <<>>)
                    ELSE [@ EXCEPT !.pc = "detect_resume"]]
  /\ UNCHANGED <<text, procVars, store, ortLib, ort, config, tokenizer, anonVars>>

\* detectPII resumes after `await initGLiNER()`
DetectResume(t) ==
  /\ Pc(t) = "detect_resume"
  /\ tasks' = [tasks EXCEPT ![t] = AfterDetect(DetectBody(@))]
  /\ UNCHANGED <<text, procVars, orchVars, anonVars>>

\* `${start}-${end}-${label}` of detectPIIChunked
SpanKey(e) == <<e.start, e.end, e.label>>

\* a merge that never consults seenSpans
NeverSeen(seen, e) == FALSE

\* whether detectPIIChunked skips an entity whose key it has seen
SeenBefore(seen, e) == SpanKey(e) \in seen

RECURSIVE MergeChunk(_, _, _, _, _)
\* the inner loop of detectPIIChunked: shift by chunkStartChar, drop the
\* keys already seen, append the rest; returns allEntities, seenSpans and
\* the number of entities skipped
MergeChunk(entities, off, acc, seen, dups) ==
  IF entities = <<>> THEN [acc |-> acc, seen |-> seen, dups |-> dups]
  ELSE LET e == Head(entities)
           adjusted == [e EXCEPT !.start = e.start + off, !.end = e.end + off]
       IN IF SeenBefore(seen, adjusted)
          THEN MergeChunk(Tail(entities), off, acc, seen, dups + 1)
          ELSE MergeChunk(Tail(entities), off, Append(acc, adjusted),
                          seen \cup {SpanKey(adjusted)}, dups)

\* detectPIIChunked from the return of runInference to the next await or
\* to the final sort
ChunkReturned(rec, entities) ==
  LET merged == MergeChunk(entities, rec.off, rec.acc, rec.seen, rec.dups)
      next == NextWindow(rec.i, rec.maxWords, OVERLAP)
      rec2 == [rec EXCEPT !.acc = merged.acc, !.seen = merged.seen,
                          !.dups = merged.dups, !.i = next]
  IN IF next < Len(SplitWS(text))
     THEN ChunkCall(rec2)
     ELSE Resolve(rec2, SortByStart(merged.acc))

\* runSpanInference / runTokenInference from the return of _session.run
RunDone(t) ==
  /\ Pc(t) = "run"
  /\ \E ok \in BOOLEAN :
       IF ~ok \/ session = 0
       THEN tasks' = [tasks EXCEPT ![t] = AfterDetect(Reject(@))]
       ELSE \E entities \in RunResults(tasks[t].chunk, config.maxWidth,
                                       tasks[t].span, tasks[t].threshold) :
              tasks' = [tasks EXCEPT ![t] =
                AfterDetect(IF @.chunked THEN ChunkReturned(@, entities)
                            ELSE Resolve(@, entities))]
  /\ UNCHANGED <<text, procVars, orchVars, anonVars>>

\* a disposeGLiNER that leaves _initialized as it was
KeepInitialized(cur) == cur

\* _initialized after disposeGLiNER
InitializedAfterDispose(cur) == FALSE

\* disposeGLiNER up to `await _session.release()`, or to its end when no
\* session is loaded
StartDispose(t) ==
  /\ Free(t)
  /\ IF session # 0
     THEN /\ tasks' = [tasks EXCEPT ![t] =
               [IdleTask EXCEPT !.kind = "dispose", !.status = "running",
                                !.pc = "dispose_release", !.found = session]]
          /\ sessions' = [sessions EXCEPT ![session].state = "releasing"]
          /\ UNCHANGED initialized
     ELSE /\ tasks' = [tasks EXCEPT ![t] =
               Resolve([IdleTask EXCEPT !.kind = "dispose"], <<>>)]
          /\ initialized' = InitializedAfterDispose(initialized)
          /\ UNCHANGED sessions
  /\ UNCHANGED <<text, procVars, store, ortLib, session, ort, config, isSpanMode,
                 tokenizer, anonVars>>

\* disposeGLiNER from the return of release() to its end
DisposeReleased(t) ==
  /\ Pc(t) = "dispose_release"
  /\ \E ok \in BOOLEAN :
       IF ok
       THEN /\ sessions' = [sessions EXCEPT ![tasks[t].found].state = "released"]
            /\ session' = 0
            /\ initialized' = InitializedAfterDispose(initialized)
            /\ tasks' = [tasks EXCEPT ![t] = Resolve(@, <<>>)]
       ELSE /\ tasks' = [tasks EXCEPT ![t] = Reject(@)]
            /\ UNCHANGED <<sessions, session, initialized>>
  /\ UNCHANGED <<text, procVars, store, ortLib, ort, config, isSpanMode, tokenizer,
                 anonVars>>

(***************************************************************************)
(* The orchestrator under concurrent callers.                              *)
(***************************************************************************)
Stores == {NoFiles} \cup {FullStore(v) : v \in Variants}

InitOrch ==
  /\ ortLib = "unloaded"
  /\ sessions = [k \in 1..MaxSessions |-> NoSession]
  /\ session = 0
  /\ ort = FALSE
  /\ config = DefaultConfig
  /\ initialized = FALSE
  /\ isSpanMode = FALSE
  /\ tokenizer = 0
  /\ tasks = [t \in Tasks |-> IdleTask]
  /\ allMatches = <<>>
  /\ anonymized = <<>>
  /\ mappings = <<>>
  /\ texts = <<>>
  /\ maxWidth = DefaultMaxWidth
  /\ batch = NoBatch
  /\ tokCall = NoCall
  /\ decode = NoDecode
  /\ win = NoWindows

Init ==
  /\ text = <<>>
  /\ store \in Stores
  /\ InitOrch

Next ==
  \/ \E t \in Tasks : StartInit(t)
  \/ \E t \in Tasks : StartDetect(t)
  \/ \E t \in Tasks : StartDispose(t)
  \/ \E t \in Tasks : InitLoaded(t)
  \/ OrtScriptSettles
  \/ \E t \in Tasks : InitOrt(t)
  \/ \E t \in Tasks : InitCreated(t)
  \/ \E t \in Tasks : DetectResume(t)
  \/ \E t \in Tasks : RunDone(t)
  \/ \E t \in Tasks : DisposeReleased(t)

Spec == Init /\ [][Next]_vars

(***************************************************************************)
(* The orchestrator's state as the callers see it.                         *)
(***************************************************************************)
InitPcs == {"init_load", "init_ort", "init_create"}
InitInFlight == \E t \in Tasks : Pc(t) \in InitPcs

OrchState ==
  IF initialized /\ session # 0 THEN "Ready"
  ELSE IF InitInFlight THEN "Initializing"
  ELSE "Uninitialized"

Constructed == {"live", "releasing", "released"}

\* C3 -- while detectPII calls overlap on an orchestrator that is not
\* Ready, at most one executor session is under construction on their
\* behalf: InferenceSession.create is not invoked again while the create of
\* an earlier detectPII call is still pending.
C3_SingleConstruction ==
  Cardinality({t \in Tasks : tasks[t].kind = "detect" /\ tasks[t].cold
                               /\ Pc(t) = "init_create"}) <= 1

\* the step settles a disposeGLiNER call of slot t successfully
DisposeCompletes(t) ==
  /\ tasks'[t].kind = "dispose"
  /\ tasks'[t].status = "resolved"
  /\ tasks'[t] # tasks[t]

\* the step makes an initGLiNER call fail
InitFails ==
  \E t \in Tasks : Pc(t) \in InitPcs /\ tasks'[t].status = "rejected"

\* a detectPII call that found the orchestrator not Ready reaches inference
\* only with the files loaded, the tokenizer set and its session created
ColdDetectInitsFirst ==
  \A t \in Tasks :
    (tasks'[t].kind = "detect" /\ tasks'[t].cold /\ tasks'[t].pc = "run")
      => /\ tasks'[t].files # NoFiles
         /\ tokenizer' # 0
         /\ sessions'[tasks'[t].sess].state \in Constructed
         /\ tasks'[t].runOn # 0

C10_EdgesAsStated ==
  \/ OrchState' = OrchState
  \/ <<OrchState, OrchState'>> \in
       {<<"Uninitialized", "Initializing">>, <<"Initializing", "Ready">>}
  \/ /\ <<OrchState, OrchState'>> = <<"Ready", "Uninitialized">>
     /\ \E t \in Tasks : DisposeCompletes(t)

C10_DisposeAsStated ==
  \A t \in Tasks :
    DisposeCompletes(t)
      => /\ session' = 0
         /\ tasks'[t].found # 0 => sessions'[tasks'[t].found].state = "released"
         /\ OrchState' = "Uninitialized"

\* C10 as stated -- the state only moves Uninitialized -> Initializing ->
\* Ready and Ready -> Uninitialized on disposeGLiNER; a detectPII call made
\* when not Ready completes an initialization before its first inference;
\* after disposeGLiNER completes the session is released and the state is
\* Uninitialized.
C10_AsStated ==
  [][C10_EdgesAsStated /\ ColdDetectInitsFirst /\ C10_DisposeAsStated]_vars

C10_Edges ==
  \/ C10_EdgesAsStated
  \/ /\ <<OrchState, OrchState'>> = <<"Initializing", "Uninitialized">>
     /\ InitFails
  \/ /\ <<OrchState, OrchState'>> = <<"Ready", "Initializing">>
     /\ \E t \in Tasks : DisposeCompletes(t)

C10_Dispose ==
  \A t \in Tasks :
    DisposeCompletes(t)
      => /\ session' = 0
         /\ ~initialized'
         /\ tasks'[t].found # 0 => sessions'[tasks'[t].found].state = "released"
         /\ OrchState' = (IF InitInFlight' THEN "Initializing" ELSE "Uninitialized")

\* C10 -- the state moves Uninitialized -> Initializing -> Ready, falls back
\* Initializing -> Uninitialized when the initialization fails, and leaves
\* Ready only when a disposeGLiNER call completes (to Uninitialized, or to
\* Initializing when another initialization is in flight); a detectPII call
\* made when not Ready reaches its first inference only after its
\* initialization loaded the files, set the tokenizer and created a
\* session; when disposeGLiNER completes, the session it found loaded has
\* been released, _session is null and _initialized is false.
C10_StateMachine ==
  [][C10_Edges /\ ColdDetectInitsFirst /\ C10_Dispose]_vars

\* a cold detectPII call has resolved and a disposeGLiNER call has released
\* the session it found
C10_Witness ==
  /\ \E t \in Tasks : /\ tasks[t].kind = "detect" /\ tasks[t].cold
                      /\ tasks[t].status = "resolved"
  /\ \E t \in Tasks : /\ tasks[t].kind = "dispose"
                      /\ tasks[t].status = "resolved"
                      /\ tasks[t].found # 0
                      /\ sessions[tasks[t].found].state = "released"
  /\ OrchState = "Uninitialized"

(***************************************************************************)
(* One detectPII call after another on a text, with a downloaded model.    *)
(***************************************************************************)
DetectAlphabet == {"a", "b", " "}
\* one token-level and one span-level model
DetectVariants == {1, 2}

InitDetect ==
  /\ text \in SeqsUpTo(DetectAlphabet, MaxTextLen)
  /\ store \in {FullStore(v) : v \in DetectVariants}
  /\ InitOrch

NextDetect ==
  \/ StartDetect(1)
  \/ InitLoaded(1)
  \/ OrtScriptSettles
  \/ InitOrt(1)
  \/ InitCreated(1)
  \/ DetectResume(1)
  \/ RunDone(1)

SpecDetect == InitDetect /\ [][NextDetect]_vars

\* the results of the detectPII calls that resolved
DetectResults ==
  {tasks[t].res : t \in {u \in Tasks : tasks[u].kind = "detect"
                                        /\ tasks[u].status = "resolved"}}

NonOverlapping(es) ==
  \A j, k \in 1..Len(es) :
    j # k => (es[j].start >= es[k].end \/ es[k].start >= es[j].end)

SortedByStart(es) ==
  \A j, k \in 1..Len(es) : j < k => es[j].start <= es[k].start

\* C4 -- the entities a detectPII call returns, chunked or not, are
\* pairwise non-overlapping and ordered by ascending start.
C4_NonOverlapSorted ==
  \A es \in DetectResults : NonOverlapping(es) /\ SortedByStart(es)

\* C5 -- every entity a detectPII call returns satisfies
\* 0 <= start < end <= length(text) and text.slice(start, end) = entity.text
\* for the original text of the call, single-pass and chunked.
C5_SpanValidity ==
  \A es \in DetectResults :
    \A k \in 1..Len(es) :
      /\ 0 <= es[k].start
      /\ es[k].start < es[k].end
      /\ es[k].end <= Len(text)
      /\ Slice(text, es[k].start, es[k].end) = es[k].text

\* C6 -- the result of a chunked detectPII call holds no two entities with
\* the same (start, end, label), whatever the windows report.
C6_NoDuplicateSpans ==
  \A t \in Tasks :
    (tasks[t].kind = "detect" /\ tasks[t].chunked /\ tasks[t].status = "resolved")
      => \A j, k \in 1..Len(tasks[t].res) :
           SpanKey(tasks[t].res[j]) = SpanKey(tasks[t].res[k]) => j = k

\* a chunked call resolved after two windows reported the same span
C6_Witness ==
  \E t \in Tasks :
    /\ tasks[t].kind = "detect" /\ tasks[t].chunked
    /\ tasks[t].status = "resolved"
    /\ tasks[t].dups > 0
    /\ Len(tasks[t].res) > 0

(***************************************************************************)
(* Anonymization (anonymization.ts).                                       *)
(***************************************************************************)
\* LABEL_TO_TYPE[entity.label] || entity.label
LabelToType(label) ==
  CASE label = "person" -> "person"
    [] label = "email address" -> "email"
    [] OTHER -> label

\* `<${type} ${counter}>`
Placeholder(type, n) == <<"<", type, " ", ToString(n), ">">>

\* the most detections the pattern library reports on one text
MaxHits == 2

\* pattern types in the order of Object.entries(STRUCTURED_PII_PATTERNS),
\* then a keyword-context type, then the person-name pattern
StructuredTypes == <<"phone", "email">>
ContextTypes == <<"ssn">>
PiiTypes == {"phone", "email", "ssn", "person"}

\* \w over the symbols of a text that holds placeholders
IsWordSym(c) == IsWordChar(c) \/ c \in PiiTypes \/ c \in {ToString(n) : n \in 1..9}

ToLowerChar(c) == CASE c = "A" -> "a" [] c = "B" -> "b" [] OTHER -> c
ToLowerCase(s) == [k \in 1..Len(s) |-> ToLowerChar(s[k])]
IsUpper(c) == c \in {"A", "B"}

\* One match of the pattern library on t.  kind: "structured" (match[0] of
\* a STRUCTURED_PII_PATTERNS entry), "context" (capture group 1, trimmed,
\* of a CONTEXT_PII_PATTERNS entry whose match starts at index with a
\* keyword and whitespace) or "person" (a personPattern match that passes
\* isLikelyPersonName, so it starts with an upper-case letter).
PatternHits(t) ==
  LET n == Len(t)
      ranges == {r \in (0..n) \X (0..n) :
                   r[1] < r[2] /\ ~IsSpace(t[r[1] + 1]) /\ ~IsSpace(t[r[2]])}
  IN {[kind |-> "structured", type |-> StructuredTypes[k], index |-> r[1],
       start |-> r[1], end |-> r[2]] : k \in 1..Len(StructuredTypes), r \in ranges}
     \cup
     {[kind |-> "context", type |-> ContextTypes[c[1]], index |-> c[2],
       start |-> c[3][1], end |-> c[3][2]] :
         c \in {d \in (1..Len(ContextTypes)) \X (0..n) \X ranges :
                  d[2] + 2 <= d[3][1]}}
     \cup
     {[kind |-> "person", type |-> "person", index |-> r[1],
       start |-> r[1], end |-> r[2]] : r \in {q \in ranges : IsUpper(t[q[1] + 1])}}

KindRank(h) ==
  CASE h.kind = "structured" ->
         CHOOSE k \in 1..Len(StructuredTypes) : StructuredTypes[k] = h.type
    [] h.kind = "context" ->
         Len(StructuredTypes) + (CHOOSE k \in 1..Len(ContextTypes) : ContextTypes[k] = h.type)
    [] OTHER -> Len(StructuredTypes) + Len(ContextTypes) + 1

\* the loops run pattern by pattern; exec reports the matches of one
\* pattern left to right
HitKey(h, n) == (KindRank(h) * (n + 1) + h.start) * (n + 1) + h.end

RECURSIVE SeqOfHits(_, _)
SeqOfHits(S, n) ==
  IF S = {} THEN <<>>
  ELSE LET h == CHOOSE x \in S : \A y \in S : HitKey(x, n) <= HitKey(y, n)
       IN <<h>> \o SeqOfHits(S \ {h}, n)

\* what the pattern library may report on t: the matches of one pattern do
\* not overlap
RegexHits(t) ==
  {SeqOfHits(S, Len(t)) :
     S \in {H \in SubsetsUpTo(PatternHits(t), MaxHits) :
              \A x, y \in H :
                (x # y /\ x.kind = y.kind /\ x.type = y.type)
                  => (x.end <= y.start \/ y.end <= x.start)}}

\* mappings[key] = value on an object: a new key goes last, an existing key
\* keeps its place
PutMapping(m, key, value) ==
  IF \E k \in 1..Len(m) : m[k].key = key
  THEN [k \in 1..Len(m) |-> IF m[k].key = key THEN [key |-> key, value |-> value] ELSE m[k]]
  ELSE Append(m, [key |-> key, value |-> value])

\* whether s holds p at 0-based offset k, compared as written
MatchesLiteral(s, p, k) == OccursAt(s, p, k)

RECURSIVE ReplaceLiteralFrom(_, _, _, _)
ReplaceLiteralFrom(s, p, r, k) ==
  IF k >= Len(s) THEN <<>>
  ELSE IF Len(p) > 0 /\ MatchesLiteral(s, p, k)
       THEN r \o ReplaceLiteralFrom(s, p, r, k + Len(p))
       ELSE <<s[k + 1]>> \o ReplaceLiteralFrom(s, p, r, k + 1)

\* result.replace(new RegExp(escapeRegex(p), 'g'), r)
ReplaceLiteral(s, p, r) == ReplaceLiteralFrom(s, p, r, 0)

RECURSIVE ReverseFrom(_, _, _)
ReverseFrom(result, m, k) ==
  IF k > Len(m) THEN result
  ELSE ReverseFrom(ReplaceLiteral(result, m[k].key, m[k].value), m, k + 1)

\* reversePIIMappings(text, mappings)
ReversePIIMappings(t, m) == ReverseFrom(t, m, 1)

\* the PiiMatch list anonymizeHybrid builds: the model's entities, then the
\* structured matches, then the keyword-context matches (the person-name
\* pattern is not consulted on this path)
HybridMatch(t, h) ==
  IF h.kind = "context"
  THEN LET value == Slice(t, h.start, h.end)
           valueStart == IndexOf(t, value, h.index)
           st == IF valueStart >= 0 THEN valueStart ELSE h.index
       IN [type |-> h.type, value |-> value, start |-> st,
           end |-> st + Len(value), placeholder |-> <<>>, source |-> "regex"]
  ELSE [type |-> h.type, value |-> Slice(t, h.index, h.end), start |-> h.index,
        end |-> h.end, placeholder |-> <<>>, source |-> "regex"]

HybridMatches(t, entities, hits) ==
  LET used == SelectSeq(hits, LAMBDA h : h.kind # "person")
  IN [k \in 1..Len(entities) |->
        [type |-> LabelToType(entities[k].label), value |-> entities[k].text,
         start |-> entities[k].start, end |-> entities[k].end,
         placeholder |-> <<>>, source |-> "gliner"]]
     \o [k \in 1..Len(used) |-> HybridMatch(t, used[k])]

\* the comparator of the dedup sort: start ascending, longer span first,
\* then `a.source === 'gliner' ? -1 : 1`
HybridCompare(a, b) ==
  IF a.start # b.start THEN a.start - b.start
  ELSE IF a.end # b.end THEN b.end - a.end
  ELSE IF a.source = "gliner" THEN -1 ELSE 1

\* The comparator answers -1 both ways for two model matches on one range
\* and 1 both ways for two regex matches on one range, so the order of
\* such a pair is the sort implementation's choice; every other pair is
\* ordered by the comparator.
HybridOrders(all) ==
  LET n == Len(all)
      perms == {f \in [1..n -> 1..n] : \A j, k \in 1..n : j # k => f[j] # f[k]}
  IN {[k \in 1..n |-> all[f[k]]] :
        f \in {g \in perms :
                 \A j, k \in 1..n :
                   (j < k /\ HybridCompare(all[g[k]], all[g[j]]) < 0)
                     => HybridCompare(all[g[j]], all[g[k]]) < 0}}

RECURSIVE DedupeMatches(_, _)
\* keep a match unless it overlaps one already kept
DedupeMatches(sorted, deduped) ==
  IF sorted = <<>> THEN deduped
  ELSE LET m == Head(sorted)
       IN IF \E k \in 1..Len(deduped) :
               m.start < deduped[k].end /\ m.end > deduped[k].start
          THEN DedupeMatches(Tail(sorted), deduped)
          ELSE DedupeMatches(Tail(sorted), Append(deduped, m))

RECURSIVE HybridReplace(_, _, _, _, _)
\* step 4 of anonymizeHybrid: number the placeholders and splice them in
HybridReplace(anon, ms, counters, maps, placed) ==
  IF ms = <<>>
  THEN [anonymized |-> anon, mappings |-> maps, matches |-> placed]
  ELSE LET m == Head(ms)
           n == IF counters[m.type] = 0 THEN 1 ELSE counters[m.type]
           ph == Placeholder(m.type, n)
       IN HybridReplace(Slice(anon, 0, m.start) \o ph \o Slice(anon, m.end, Len(anon)),
                        Tail(ms), [counters EXCEPT ![m.type] = n + 1],
                        PutMapping(maps, ph, m.value),
                        Append(placed, [m EXCEPT !.placeholder = ph]))

\* a replacement pass that goes through the matches from the lowest start
LowestFirst(m) == m.start

\* deduped.sort((a, b) => b.start - a.start): the highest start first
ReplaceOrderKey(m) == 0 - m.start

\* anonymizeHybrid after detectPII returned, given the order the dedup sort
\* produced
AnonymizeHybrid(t, sorted) ==
  LET deduped == DedupeMatches(sorted, <<>>)
      byPos == StableSortByKey(deduped,
                 [k \in 1..Len(deduped) |-> ReplaceOrderKey(deduped[k])])
  IN HybridReplace(t, byPos, [ty \in PiiTypes |-> 0], <<>>, <<>>)

RECURSIVE RegexCollect(_, _, _, _)
\* the three matching loops of anonymizeWithRegex: a placeholder is
\* numbered when its match is found
RegexCollect(t, hits, counters, matches) ==
  IF hits = <<>> THEN matches
  ELSE LET h == Head(hits)
           value == Slice(t, h.start, h.end)
           skip == h.kind # "structured"
                     /\ \E k \in 1..Len(matches) : matches[k].value = value
       IN IF skip THEN RegexCollect(t, Tail(hits), counters, matches)
          ELSE RegexCollect(t, Tail(hits),
                 [counters EXCEPT ![h.type] = @ + 1],
                 Append(matches, [type |-> h.type, value |-> value,
                                  placeholder |-> Placeholder(h.type, counters[h.type])]))

RECURSIVE UniqueMatches(_, _, _)
\* the filter on seen: one match per lower-cased value
UniqueMatches(ms, seen, acc) ==
  IF ms = <<>> THEN acc
  ELSE IF ToLowerCase(Head(ms).value) \in seen
       THEN UniqueMatches(Tail(ms), seen, acc)
       ELSE UniqueMatches(Tail(ms), seen \cup {ToLowerCase(Head(ms).value)},
                          Append(acc, Head(ms)))

\* \b at 0-based offset k of s
WordBoundary(s, k) ==
  (k >= 1 /\ IsWordSym(s[k])) # (k < Len(s) /\ IsWordSym(s[k + 1]))

\* whether /\bvalue\b/gi matches s at 0-based offset k
MatchesWord(s, value, k) ==
  /\ k + Len(value) <= Len(s)
  /\ \A j \in 1..Len(value) : ToLowerChar(s[k + j]) = ToLowerChar(value[j])
  /\ WordBoundary(s, k)
  /\ WordBoundary(s, k + Len(value))

RECURSIVE ReplaceWordFrom(_, _, _, _)
ReplaceWordFrom(s, value, r, k) ==
  IF k >= Len(s) THEN <<>>
  ELSE IF Len(value) > 0 /\ MatchesWord(s, value, k)
       THEN r \o ReplaceWordFrom(s, value, r, k + Len(value))
       ELSE <<s[k + 1]>> \o ReplaceWordFrom(s, value, r, k + 1)

\* anonymized.replace(new RegExp(`\\b${escapeRegex(value)}\\b`, 'gi'), r)
ReplaceWord(s, value, r) == ReplaceWordFrom(s, value, r, 0)

RECURSIVE RegexReplace(_, _, _)
RegexReplace(anon, ms, maps) ==
  IF ms = <<>> THEN [anonymized |-> anon, mappings |-> maps]
  ELSE RegexReplace(ReplaceWord(anon, Head(ms).value, Head(ms).placeholder),
                    Tail(ms),
                    PutMapping(maps, Head(ms).placeholder, Head(ms).value))

\* anonymizeWithRegex(text), given the matches of the pattern library
AnonymizeWithRegex(t, hits) ==
  LET matches == RegexCollect(t, hits, [ty \in PiiTypes |-> 1], <<>>)
      sortedMatches == StableSortByKey(matches,
                         [k \in 1..Len(matches) |-> 0 - IndexOf(t, matches[k].value, 0)])
      unique == UniqueMatches(sortedMatches, {}, <<>>)
      r == RegexReplace(t, unique, <<>>)
  IN [anonymized |-> r.anonymized, mappings |-> r.mappings, matches |-> unique]

\* anonymizeTranscription up to `await isGLiNERAvailable()`
StartAnonymize(t) ==
  /\ Free(t)
  /\ tasks' = [tasks EXCEPT ![t] =
       [IdleTask EXCEPT !.kind = "anonymize", !.status = "running",
                        !.pc = "anon_check"]]
  /\ allMatches' = <<>>
  /\ anonymized' = <<>>
  /\ mappings' = <<>>
  /\ UNCHANGED <<text, procVars, orchVars>>

\* anonymizeTranscription from the answer of isGLiNERAvailable (false also
\* when the store cannot be read): the hybrid path up to the first await
\* of detectPII, or the whole regex-only path
AnonChecked(t) ==
  /\ Pc(t) = "anon_check"
  /\ \E avail \in {CheckGLiNERModelExists(store), FALSE} :
       IF avail
       THEN /\ tasks' = [tasks EXCEPT ![t] = DetectCall([@ EXCEPT !.path = "hybrid"])]
            /\ UNCHANGED anonVars
       ELSE \E hits \in RegexHits(text) :
              LET r == AnonymizeWithRegex(text, hits)
              IN /\ allMatches' = r.matches
                 /\ anonymized' = r.anonymized
                 /\ mappings' = r.mappings
                 /\ tasks' = [tasks EXCEPT ![t] =
                      Resolve([@ EXCEPT !.path = "regex"], <<>>)]
  /\ UNCHANGED <<text, procVars, orchVars>>

\* anonymizeHybrid from the return of detectPII to its end
HybridResume(t) ==
  /\ Pc(t) = "hybrid_resume"
  /\ \E hits \in RegexHits(text) :
       \E sorted \in HybridOrders(HybridMatches(text, tasks[t].res, hits)) :
         LET r == AnonymizeHybrid(text, sorted)
         IN /\ allMatches' = r.matches
            /\ anonymized' = r.anonymized
            /\ mappings' = r.mappings
            /\ tasks' = [tasks EXCEPT ![t] = Resolve(@, <<>>)]
  /\ UNCHANGED <<text, procVars, orchVars>>

(***************************************************************************)
(* One anonymizeTranscription call after another on a text.                *)
(***************************************************************************)
AnonAlphabet == {"a", "A", " "}
\* longest text handed to anonymizeTranscription
MaxAnonLen == 3

InitAnon ==
  /\ text \in SeqsUpTo(AnonAlphabet, MaxAnonLen)
  /\ store \in {NoFiles} \cup {FullStore(v) : v \in DetectVariants}
  /\ InitOrch

NextAnon ==
  \/ StartAnonymize(1)
  \/ AnonChecked(1)
  \/ InitLoaded(1)
  \/ OrtScriptSettles
  \/ InitOrt(1)
  \/ InitCreated(1)
  \/ DetectResume(1)
  \/ RunDone(1)
  \/ HybridResume(1)

SpecAnon == InitAnon /\ [][NextAnon]_vars

\* an anonymizeTranscription call has resolved with anonymized, mappings
AnonResolved ==
  \E t \in Tasks : tasks[t].kind = "anonymize" /\ tasks[t].status = "resolved"

\* C1 -- reversePIIMappings applied to the result of anonymizeTranscription
\* returns exactly the original text, on the hybrid and on the regex-only
\* path, for any text and any detections.
C1_RoundTrip ==
  AnonResolved => ReversePIIMappings(anonymized, mappings) = text

\* C2 -- anonymizeTranscription never rejects because of the model path: a
\* failure of model-based detection falls back to regex anonymization.
C2_NeverRejects ==
  \A t \in Tasks : tasks[t].kind = "anonymize" => tasks[t].status # "rejected"

\* the counters n for which `<ty n>` is a key of m
CountersOf(m, ty) ==
  {n \in 1..9 : \E k \in 1..Len(m) : m[k].key = Placeholder(ty, n)}

\* C7 -- within one anonymizeTranscription call the keys of mappings are
\* distinct, each has the form <type counter>, and the counters of each
\* type start at 1 and increase by one per placeholder of that type.
C7_PlaceholderCounters ==
  AnonResolved =>
    /\ \A j, k \in 1..Len(mappings) : mappings[j].key = mappings[k].key => j = k
    /\ \A k \in 1..Len(mappings) :
         \E ty \in PiiTypes, n \in 1..9 : mappings[k].key = Placeholder(ty, n)
    /\ \A ty \in PiiTypes :
         CountersOf(mappings, ty) = 1..Cardinality(CountersOf(mappings, ty))

\* C8 -- anonymizeTranscription("") returns { anonymized: "", mappings: {} }
\* without raising, whether the model is available or not.
C8_EmptyText ==
  \A t \in Tasks :
    (tasks[t].kind = "anonymize" /\ text = <<>>)
      => /\ tasks[t].status # "rejected"
         /\ tasks[t].status = "resolved" => (anonymized = <<>> /\ mappings = <<>>)

(***************************************************************************)
(* Mode selection (initGLiNER, runInference).                              *)
(***************************************************************************)
\* the mode initGLiNER selects for a session built from model variant v
ModeOfModel(v) == SessionHasSpanInputs(v) \/ ConfigSaysSpan(ParseConfig(v))

\* C11 -- every inference runs in span mode when the session it runs on
\* declares span_idx or span_mask, whatever the loaded config says, and in
\* the mode the config gives when the session declares neither.
C11_ModeFollowsSession ==
  \A t \in Tasks :
    Pc(t) = "run" => tasks[t].span = ModeOfModel(sessions[tasks[t].runOn].model)

(***************************************************************************)
(* detectPII calls with and without a threshold, one after another.        *)
(***************************************************************************)
MaxThresholdLen == 2
\* thresholds a caller passes (per mille)
CallerThresholds == {300, 500}

InitThreshold ==
  /\ text \in SeqsUpTo(DetectAlphabet, MaxThresholdLen)
  /\ store \in {FullStore(v) : v \in DetectVariants}
  /\ InitOrch

NextThreshold ==
  \/ StartDetect(1)
  \/ \E th \in CallerThresholds : StartDetectWith(1, th)
  \/ InitLoaded(1)
  \/ OrtScriptSettles
  \/ InitOrt(1)
  \/ InitCreated(1)
  \/ DetectResume(1)
  \/ RunDone(1)

SpecThreshold == InitThreshold /\ [][NextThreshold]_vars

\* the default threshold of the model generation a run decodes for
TOKEN_THRESHOLD == 300
GenerationThreshold(span) == IF span THEN DEFAULT_THRESHOLD ELSE TOKEN_THRESHOLD

\* C12 -- a detectPII call without a threshold decodes with 0.3 on a
\* token-pair model and with 0.4 on a span model; a call with a threshold
\* decodes with the caller's value in both modes.
C12_ThresholdUsed ==
  \A t \in Tasks :
    Pc(t) = "run" =>
      tasks[t].threshold = IF tasks[t].arg = NoThreshold
                           THEN GenerationThreshold(tasks[t].span)
                           ELSE tasks[t].arg

(***************************************************************************)
(* Tokenizer (tokenizer.ts).  A string is the sequence of its UTF-16 code  *)
(* units; "_" is U+2581, "e" is U+00E9, "f" is U+FF41 (fullwidth a, which  *)
(* NFKC maps to "a") and "h" is a high surrogate without its low one.      *)
(***************************************************************************)
WordMark == "_"
TokAlphabet == {"a", "b", "e", "f", "h", " "}
MaxWordLen == 3
EntToken == <<"<", "<", "E", "N", "T", ">", ">">>
\* the arguments of encodeWord
TokWords == SeqsUpTo(TokAlphabet, MaxWordLen) \cup {EntToken}

\* String.prototype.normalize('NFKC')
Normalize(w) == [k \in 1..Len(w) |-> IF w[k] = "f" THEN "a" ELSE w[k]]
\* String.prototype.replaceAll(' ', '\u2581')
ReplaceSpaces(w) == [k \in 1..Len(w) |-> IF w[k] = " " THEN WordMark ELSE w[k]]

\* new TextEncoder().encode of one code unit: a lone surrogate is encoded
\* as U+FFFD
Utf8(c) ==
  CASE c = "a" -> <<97>>
    [] c = "b" -> <<98>>
    [] c = " " -> <<32>>
    [] c = "e" -> <<195, 169>>
    [] c = "f" -> <<239, 189, 129>>
    [] c = "h" -> <<239, 191, 189>>
    [] c = "E" -> <<69>>
    [] c = WordMark -> <<226, 150, 129>>
    [] c = "<" -> <<60>>
    [] c = ">" -> <<62>>
    [] c = "N" -> <<78>>
    [] c = "T" -> <<84>>
    [] c = "-" -> <<45>>

RECURSIVE TextEncode(_)
\* new TextEncoder().encode of a string without surrogate pairs
TextEncode(w) == IF w = <<>> THEN <<>> ELSE Utf8(Head(w)) \o TextEncode(Tail(w))

HexDigits == <<"0", "1", "2", "3", "4", "5", "6", "7", "8", "9",
               "A", "B", "C", "D", "E", "F">>
\* the piece <0xNN> of byte b
BytePiece(b) == <<"<", "0", "x", HexDigits[(b \div 16) + 1], HexDigits[(b % 16) + 1], ">">>

\* Map.get / ?? on a missing key
Undefined == 0 - 1
Coalesce(a, b) == IF a # Undefined THEN a ELSE b

\* a Map filled by set() in the order of the entries: the last entry of a
\* key is the one get() returns
LastWith(entries, key) ==
  LET hits == {k \in 1..Len(entries) : entries[k][1] = key}
  IN IF hits = {} THEN 0 ELSE CHOOSE k \in hits : \A m \in hits : m <= k
FirstWith(entries, key) ==
  LET hits == {k \in 1..Len(entries) : entries[k][1] = key}
  IN IF hits = {} THEN 0 ELSE CHOOSE k \in hits : \A m \in hits : k <= m

\* addedTokens.get(content) of both tokenizer classes
AddedGet(json, content) ==
  LET k == LastWith(json.added_tokens, content)
  IN IF k = 0 THEN Undefined ELSE json.added_tokens[k][2]

(***************************************************************************)
(* UnigramTokenizer.                                                       *)
(***************************************************************************)
\* vocab.get(piece): the index of the first entry of the piece
UniVocabGet(json, piece) ==
  LET k == FirstWith(json.vocab, piece)
  IN IF k = 0 THEN Undefined ELSE k - 1
UniHasScore(json, piece) == FirstWith(json.vocab, piece) # 0
\* scores.get(piece)
UniScore(json, piece) == json.vocab[FirstWith(json.vocab, piece)][2]
\* byteTokens.get(b): the index of the last entry <0xNN> of the byte
ByteTokenGet(json, b) ==
  LET k == LastWith(json.vocab, BytePiece(b))
  IN IF k = 0 THEN Undefined ELSE k - 1
MaxPieceLength(json) ==
  IF Len(json.vocab) = 0 THEN 0
  ELSE LET k == CHOOSE j \in 1..Len(json.vocab) :
                  \A m \in 1..Len(json.vocab) : Len(json.vocab[m][1]) <= Len(json.vocab[j][1])
       IN Len(json.vocab[k][1])

UnkPiece == <<"<", "u", "n", "k", ">">>
ClsPiece == <<"[", "C", "L", "S", "]">>
SepPiece == <<"[", "S", "E", "P", "]">>
BosPiece == <<"<", "s", ">">>
EosPiece == <<"<", "/", "s", ">">>
UnkBracket == <<"[", "U", "N", "K", "]">>

UniUnkTokenId(json) ==
  Coalesce(json.unk_id, Coalesce(AddedGet(json, UnkPiece),
                                 Coalesce(UniVocabGet(json, UnkPiece), 0)))
UniClsTokenId(json) ==
  Coalesce(AddedGet(json, ClsPiece), Coalesce(AddedGet(json, BosPiece),
                                     Coalesce(UniVocabGet(json, ClsPiece), 1)))
UniSepTokenId(json) ==
  Coalesce(AddedGet(json, SepPiece), Coalesce(AddedGet(json, EosPiece),
                                     Coalesce(UniVocabGet(json, SepPiece), 2)))
UniGetTokenId(json, token) ==
  Coalesce(AddedGet(json, token), Coalesce(UniVocabGet(json, token), UniUnkTokenId(json)))

\* -Infinity, below every sum of scores and penalties of a word
NegInfinity == 0 - 1000000
\* the id that marks a byte-fallback entry of best[]
ByteMarker == 0 - 2

RECURSIVE UniPieces(_, _, _, _, _)
\* viterbi: the loop over the piece lengths at position i
UniPieces(json, t, best, i, len) ==
  IF len > Min(MaxPieceLength(json), Len(t) - i) THEN best
  ELSE LET piece == Slice(t, i, i + len)
           better == /\ UniHasScore(json, piece)
                     /\ best[i].score + UniScore(json, piece) > best[i + len].score
       IN UniPieces(json, t,
            IF better
            THEN [best EXCEPT ![i + len] =
                   [score |-> best[i].score + UniScore(json, piece), prev |-> i,
                    id |-> UniVocabGet(json, piece)]]
            ELSE best, i, len + 1)

\* a viterbi that stores no id for such a character
UniUnknownMissing(json) == Undefined

\* the id viterbi stores for a character that has neither a piece nor all
\* of its byte pieces
UniUnknownId(json) == UniUnkTokenId(json)

\* a viterbi without the fallback step
UniNoFallback(json, t, best, i) == best

\* viterbi: the byte fallback at position i
UniFallback(json, t, best, i) ==
  IF best[i + 1].score # NegInfinity THEN best
  ELSE LET bytes == Utf8(t[i + 1])
           charLen == 1
       IN IF \A k \in 1..Len(bytes) : ByteTokenGet(json, bytes[k]) # Undefined
          THEN IF best[i].score - 100 > best[i + charLen].score
               THEN [best EXCEPT ![i + charLen] =
                      [score |-> best[i].score - 100, prev |-> i, id |-> ByteMarker]]
               ELSE best
          ELSE [best EXCEPT ![i + 1] =
                 [score |-> best[i].score - 200, prev |-> i, id |-> UniUnknownId(json)]]

RECURSIVE UniForward(_, _, _, _)
UniForward(json, t, best, i) ==
  IF i >= Len(t) THEN best
  ELSE IF best[i].score = NegInfinity /\ i > 0 THEN UniForward(json, t, best, i + 1)
  ELSE UniForward(json, t, UniFallback(json, t, UniPieces(json, t, best, i, 1), i), i + 1)

RECURSIVE UniBacktrack(_, _, _, _)
\* viterbi: the token ids from position pos back to 0
UniBacktrack(json, t, best, pos) ==
  IF pos <= 0 THEN <<>>
  ELSE LET entry == best[pos]
           bytes == TextEncode(Slice(t, entry.prev, pos))
           toks == IF entry.id = ByteMarker
                   THEN \* tokens.unshift per byte: the bytes end up reversed
                        [k \in 1..Len(bytes) |->
                          Coalesce(ByteTokenGet(json, bytes[Len(bytes) + 1 - k]),
                                   UniUnkTokenId(json))]
                   ELSE <<entry.id>>
       IN UniBacktrack(json, t, best, entry.prev) \o toks

Viterbi(json, t) ==
  IF Len(t) = 0 THEN <<>>
  ELSE LET best0 == [k \in 0..Len(t) |->
                      IF k = 0 THEN [score |-> 0, prev |-> 0, id |-> 0 - 1]
                      ELSE [score |-> NegInfinity, prev |-> 0, id |-> UniUnkTokenId(json)]]
       IN UniBacktrack(json, t, UniForward(json, t, best0, 0), Len(t))

\* the string viterbi segments
UniInput(word) == <<WordMark>> \o ReplaceSpaces(Normalize(word))

UniEncodeWord(json, word) ==
  IF AddedGet(json, word) # Undefined THEN <<AddedGet(json, word)>>
  ELSE Viterbi(json, UniInput(word))

(***************************************************************************)
(* BPETokenizer.                                                           *)
(***************************************************************************)
\* buildByteEncoder: the code point that stands for byte b
Printable(b) == (33 <= b /\ b <= 126) \/ (161 <= b /\ b <= 172) \/ (174 <= b /\ b <= 255)
ByteEncoder(b) ==
  IF Printable(b) THEN b
  ELSE 256 + Cardinality({c \in 0..(b - 1) : ~Printable(c)})

\* String.fromCodePoint, on the code points the byte encoder produces
FromCodePoint(cp) ==
  CASE cp = 97 -> "a"
    [] cp = 98 -> "b"
    [] cp = 60 -> "<"
    [] cp = 62 -> ">"
    [] cp = 78 -> "N"
    [] cp = 84 -> "T"
    [] cp = 233 -> "e"
    [] cp = 69 -> "E"
    [] cp = 45 -> "-"
    [] OTHER -> "u" \o ToString(cp)

\* U+0120, the byte-level form of the space
SpaceSymbol == FromCodePoint(ByteEncoder(32))

\* vocab.get(token): model.vocab with the added tokens set over it
BpeVocabGet(json, token) ==
  LET k == LastWith(json.vocab, token)
  IN Coalesce(AddedGet(json, token),
              IF k = 0 THEN Undefined ELSE json.vocab[k][2])

\* mergeRanks.get(pair)
MergeRank(json, pair) ==
  LET hits == {k \in 1..Len(json.merges) : json.merges[k] = pair}
  IN IF hits = {} THEN Undefined
     ELSE (CHOOSE k \in hits : \A m \in hits : m <= k) - 1

IsByteLevelBPE(json) == json.byteLevel \/ json.byte_fallback

BpeUnkTokenId(json) ==
  Coalesce(BpeVocabGet(json, UnkBracket), Coalesce(BpeVocabGet(json, UnkPiece), 0))
BpeClsTokenId(json) ==
  Coalesce(BpeVocabGet(json, ClsPiece), Coalesce(BpeVocabGet(json, BosPiece), 1))
BpeSepTokenId(json) ==
  Coalesce(BpeVocabGet(json, SepPiece), Coalesce(BpeVocabGet(json, EosPiece), 2))
BpeGetTokenId(json, token) ==
  Coalesce(AddedGet(json, token), Coalesce(BpeVocabGet(json, token), BpeUnkTokenId(json)))

\* the id encodeWord gives a symbol or substring the vocabulary lacks
BpeUnknownId(json) == BpeUnkTokenId(json)

\* `${a} ${b}`
PairOf(a, b) == a \o <<" ">> \o b

\* bestPair.split(' '), its first two parts
SplitPair(pair) ==
  LET k == IndexOf(pair, <<" ">>, 0)
      rest == Slice(pair, k + 1, Len(pair))
      m == IndexOf(rest, <<" ">>, 0)
  IN <<Slice(pair, 0, k), IF m < 0 THEN rest ELSE Slice(rest, 0, m)>>

\* findBestMergePair: the first pair of lowest rank, <<>> for null
FindBestMergePair(json, symbols) ==
  LET ranked == {i \in 1..(Len(symbols) - 1) :
                   MergeRank(json, PairOf(symbols[i], symbols[i + 1])) # Undefined}
      rank(i) == MergeRank(json, PairOf(symbols[i], symbols[i + 1]))
  IN IF ranked = {} THEN <<>>
     ELSE LET i == CHOOSE j \in ranked :
                     \A m \in ranked : rank(j) < rank(m) \/ (rank(j) = rank(m) /\ j <= m)
          IN PairOf(symbols[i], symbols[i + 1])

RECURSIVE MergeFrom(_, _, _, _)
\* applyBPE: the inner loop that rewrites symbols from index i (0-based)
MergeFrom(symbols, a, b, i) ==
  IF i >= Len(symbols) THEN <<>>
  ELSE IF i < Len(symbols) - 1 /\ symbols[i + 1] = a /\ symbols[i + 2] = b
  THEN <<a \o b>> \o MergeFrom(symbols, a, b, i + 2)
  ELSE <<symbols[i + 1]>> \o MergeFrom(symbols, a, b, i + 1)

RECURSIVE MergeLoop(_, _, _)
\* applyBPE: the outer loop
MergeLoop(json, symbols, bestPair) ==
  IF bestPair = <<>> THEN symbols
  ELSE LET parts == SplitPair(bestPair)
           newSymbols == MergeFrom(symbols, parts[1], parts[2], 0)
       IN IF Len(newSymbols) <= 1 THEN newSymbols
          ELSE MergeLoop(json, newSymbols, FindBestMergePair(json, newSymbols))

ApplyBPE(json, symbols) ==
  IF Len(symbols) <= 1 THEN symbols
  ELSE MergeLoop(json, symbols, FindBestMergePair(json, symbols))

EncodeByteLevelBPE(json, word) ==
  LET toEncode == IF json.addPrefixSpace THEN <<" ">> \o word ELSE word
      bytes == TextEncode(toEncode)
      symbols == [k \in 1..Len(bytes) |-> <<FromCodePoint(ByteEncoder(bytes[k]))>>]
  IN IF Len(symbols) = 0 THEN <<BpeUnkTokenId(json)>>
     ELSE IF Len(symbols) = 1
     THEN <<Coalesce(BpeVocabGet(json, symbols[1]), BpeUnkTokenId(json))>>
     ELSE LET merged == ApplyBPE(json, symbols)
          IN [k \in 1..Len(merged) |->
               Coalesce(BpeVocabGet(json, merged[k]), BpeUnknownId(json))]

RECURSIVE WordPieceEnd(_, _, _, _)
\* encodeWordPieceFallback: the greatest end > start whose substring is in
\* the vocabulary, start when there is none
WordPieceEnd(json, word, start, end) ==
  IF start >= end THEN start
  ELSE LET substr == IF start > 0 THEN <<"#", "#">> \o Slice(word, start, end)
                     ELSE Slice(word, start, end)
       IN IF BpeVocabGet(json, substr) # Undefined THEN end
          ELSE WordPieceEnd(json, word, start, end - 1)

RECURSIVE WordPieceFrom(_, _, _)
WordPieceFrom(json, word, start) ==
  IF start >= Len(word) THEN <<>>
  ELSE LET end == WordPieceEnd(json, word, start, Len(word))
           substr == IF start > 0 THEN <<"#", "#">> \o Slice(word, start, end)
                     ELSE Slice(word, start, end)
       IN IF end > start
          THEN <<BpeVocabGet(json, substr)>> \o WordPieceFrom(json, word, end)
          ELSE <<BpeUnknownId(json)>> \o WordPieceFrom(json, word, start + 1)

EncodeWordPieceFallback(json, word) ==
  IF BpeVocabGet(json, word) # Undefined THEN <<BpeVocabGet(json, word)>>
  ELSE WordPieceFrom(json, word, 0)

BpeEncodeWord(json, word) ==
  IF AddedGet(json, word) # Undefined THEN <<AddedGet(json, word)>>
  ELSE IF IsByteLevelBPE(json) THEN EncodeByteLevelBPE(json, word)
  ELSE EncodeWordPieceFallback(json, word)

(***************************************************************************)
(* The tokenizer.json blobs and the exported functions of tokenizer.ts.    *)
(***************************************************************************)
SepToken == <<"<", "<", "S", "E", "P", ">", ">">>

\* tokenizer.json of blob v; blob 6 has no `model`, blob 7 is met only by
\* the tokenizer on its own
TokenizerJson(v) ==
  CASE v = 1 ->
         [type |-> "Unigram",
          vocab |-> << <<UnkPiece, 0>>, <<<<WordMark>>, -2>>, <<<<WordMark, "a">>, -3>>,
                       <<<<"a">>, -4>>, <<<<"a", "b">>, -5>>,
                       <<BytePiece(195), -10>>, <<BytePiece(169), -10>>,
                       <<BytePiece(239), -10>> >>,
          merges |-> <<>>,
          added_tokens |-> << <<ClsPiece, 8>>, <<SepPiece, 9>>, <<EntToken, 10>>,
                              <<SepToken, 11>> >>,
          unk_id |-> 0, byteLevel |-> FALSE, byte_fallback |-> TRUE,
          addPrefixSpace |-> FALSE]
    [] v = 2 ->
         [type |-> "Unigram",
          vocab |-> << <<BosPiece, 0>>, <<UnkPiece, 0>>, <<<<WordMark, "b">>, -1>> >>,
          merges |-> <<>>,
          added_tokens |-> <<>>,
          unk_id |-> Undefined, byteLevel |-> FALSE, byte_fallback |-> FALSE,
          addPrefixSpace |-> FALSE]
    [] v = 3 ->
         [type |-> "BPE",
          vocab |-> << <<UnkBracket, 0>>, <<ClsPiece, 1>>, <<SepPiece, 2>>,
                       <<<<SpaceSymbol>>, 3>>, <<<<"a">>, 4>>, <<<<"b">>, 5>>,
                       <<<<SpaceSymbol, "a">>, 6>>, <<<<"a", "b">>, 7>>,
                       <<<<SpaceSymbol, "a", "b">>, 8>> >>,
          merges |-> << PairOf(<<SpaceSymbol>>, <<"a">>), PairOf(<<"a">>, <<"b">>),
                        PairOf(<<SpaceSymbol, "a">>, <<"b">>) >>,
          added_tokens |-> << <<EntToken, 9>>, <<SepToken, 10>> >>,
          unk_id |-> Undefined, byteLevel |-> TRUE, byte_fallback |-> FALSE,
          addPrefixSpace |-> TRUE]
    [] v = 4 ->
         [type |-> "BPE",
          vocab |-> << <<<<"a">>, 1>>, <<<<"a", "a">>, 2>>, <<UnkPiece, 3>> >>,
          merges |-> << PairOf(<<"a">>, <<"a">>) >>,
          added_tokens |-> <<>>,
          unk_id |-> Undefined, byteLevel |-> FALSE, byte_fallback |-> TRUE,
          addPrefixSpace |-> FALSE]
    [] v = 5 ->
         [type |-> "BPE",
          vocab |-> << <<UnkBracket, 0>>, <<<<"a">>, 1>>, <<<<"#", "#", "b">>, 2>>,
                       <<<<"a", "b">>, 3>>, <<<<"#", "#", "a">>, 4>> >>,
          merges |-> <<>>,
          added_tokens |-> << <<EntToken, 5>> >>,
          unk_id |-> Undefined, byteLevel |-> FALSE, byte_fallback |-> FALSE,
          addPrefixSpace |-> FALSE]
    [] v = 7 ->
         \* a Unigram vocabulary that lists a special token as a piece and
         \* holds a long piece of very low score
         [type |-> "Unigram",
          vocab |-> << <<UnkPiece, 0>>, <<EntToken, 0>>, <<<<WordMark>>, -2>>,
                       <<<<WordMark, "a">>, -3>>, <<<<"a">>, -4>>, <<<<"b">>, -3>>,
                       <<<<WordMark, "e", "b">>, -120>>,
                       <<BytePiece(195), -10>>, <<BytePiece(169), -10>> >>,
          merges |-> <<>>,
          added_tokens |-> << <<EntToken, 1>>, <<SepToken, 9>> >>,
          unk_id |-> 0, byteLevel |-> FALSE, byte_fallback |-> TRUE,
          addPrefixSpace |-> FALSE]
    [] OTHER -> [type |-> "none"]

TokenizerJsons == Variants \cup {6}
\* initTokenizer: modelType === 'Unigram'
IsUnigram(json) == json.type = "Unigram"
\* the constructors read model.vocab, which raises when `model` is absent
HasModel(json) == json.type # "none"

TokEncodeWord(v, word) ==
  IF IsUnigram(TokenizerJson(v)) THEN UniEncodeWord(TokenizerJson(v), word)
  ELSE BpeEncodeWord(TokenizerJson(v), word)
TokGetTokenId(v, token) ==
  IF IsUnigram(TokenizerJson(v)) THEN UniGetTokenId(TokenizerJson(v), token)
  ELSE BpeGetTokenId(TokenizerJson(v), token)
TokClsTokenId(v) ==
  IF IsUnigram(TokenizerJson(v)) THEN UniClsTokenId(TokenizerJson(v))
  ELSE BpeClsTokenId(TokenizerJson(v))
TokSepTokenId(v) ==
  IF IsUnigram(TokenizerJson(v)) THEN UniSepTokenId(TokenizerJson(v))
  ELSE BpeSepTokenId(TokenizerJson(v))
TokUnkTokenId(v) ==
  IF IsUnigram(TokenizerJson(v)) THEN UniUnkTokenId(TokenizerJson(v))
  ELSE BpeUnkTokenId(TokenizerJson(v))

\* an exported function that answers with a default id while _tokenizer is null
ReturnsDefault == [status |-> "returned", value |-> <<0>>]
\* if (!_tokenizer) throw new Error('Tokenizer not initialized')
NotInitialized == [status |-> "threw", value |-> <<>>]

\* the outcome of an exported function whose delegate returns value
TokCallResult(fn, word, value) ==
  IF tokenizer = 0
  THEN [fn |-> fn, word |-> word, on |-> 0,
        status |-> NotInitialized.status, value |-> NotInitialized.value]
  ELSE [fn |-> fn, word |-> word, on |-> tokenizer,
        status |-> "returned", value |-> value]

\* the calls of one behaviour: the caller asks once after each initTokenizer
CanAsk == tokCall.fn \in {"none", "initTokenizer"}

tokFrame == <<text, store, ortLib, sessions, session, ort, config, initialized,
              isSpanMode, tasks, anonVars, texts, maxWidth, batch, decode, win>>

InitTokenizerCall ==
  /\ \E j \in TokenizerJsons :
       IF HasModel(TokenizerJson(j))
       THEN /\ tokenizer' = InitTokenizer(j)
            /\ tokCall' = [fn |-> "initTokenizer", word |-> <<>>, on |-> j,
                           status |-> "returned", value |-> <<>>]
       ELSE /\ tokenizer' = tokenizer
            /\ tokCall' = [fn |-> "initTokenizer", word |-> <<>>, on |-> j,
                           status |-> "threw", value |-> <<>>]
  /\ UNCHANGED tokFrame

EncodeWordCall ==
  /\ CanAsk
  /\ \E word \in TokWords :
       tokCall' = TokCallResult("encodeWord", word, TokEncodeWord(tokenizer, word))
  /\ UNCHANGED <<tokenizer, tokFrame>>

GetSpecialTokenIdCall ==
  /\ CanAsk
  /\ \E token \in {EntToken, SepToken, <<"a">>} :
       tokCall' = TokCallResult("getSpecialTokenId", token,
                                <<TokGetTokenId(tokenizer, token)>>)
  /\ UNCHANGED <<tokenizer, tokFrame>>

GetClsTokenIdCall ==
  /\ CanAsk
  /\ tokCall' = TokCallResult("getClsTokenId", <<>>, <<TokClsTokenId(tokenizer)>>)
  /\ UNCHANGED <<tokenizer, tokFrame>>

GetSepTokenIdCall ==
  /\ CanAsk
  /\ tokCall' = TokCallResult("getSepTokenId", <<>>, <<TokSepTokenId(tokenizer)>>)
  /\ UNCHANGED <<tokenizer, tokFrame>>

InitTok ==
  /\ text = <<>>
  /\ store = NoFiles
  /\ InitOrch

NextTok ==
  \/ InitTokenizerCall
  \/ EncodeWordCall
  \/ GetSpecialTokenIdCall
  \/ GetClsTokenIdCall
  \/ GetSepTokenIdCall

SpecTok == InitTok /\ [][NextTok]_vars

\* the ids that denote an entry of the vocabulary or an added token
KnownIds(json) ==
  {json.added_tokens[k][2] : k \in 1..Len(json.added_tokens)}
    \cup (IF IsUnigram(json) THEN 0..(Len(json.vocab) - 1)
          ELSE {json.vocab[k][2] : k \in 1..Len(json.vocab)})

\* the symbols encodeWord looks up for a word
LookupSymbols(json, word) ==
  IF IsUnigram(json) THEN {UniInput(word)[k] : k \in 1..Len(UniInput(word))}
  ELSE IF IsByteLevelBPE(json)
  THEN LET bytes == TextEncode(IF json.addPrefixSpace THEN <<" ">> \o word ELSE word)
       IN {FromCodePoint(ByteEncoder(bytes[k])) : k \in 1..Len(bytes)}
  ELSE {word[k] : k \in 1..Len(word)}

\* the symbol occurs in an entry of the vocabulary
InVocabulary(json, sym) ==
  \/ \E k \in 1..Len(json.vocab) :
       \E m \in 1..Len(json.vocab[k][1]) : json.vocab[k][1][m] = sym
  \/ /\ ~IsUnigram(json)
     /\ \E k \in 1..Len(json.added_tokens) :
          \E m \in 1..Len(json.added_tokens[k][1]) : json.added_tokens[k][1][m] = sym

\* the Unigram vocabulary holds a <0xNN> piece for every UTF-8 byte of sym
ByteCovered(json, sym) ==
  /\ IsUnigram(json)
  /\ \A k \in 1..Len(Utf8(sym)) : ByteTokenGet(json, Utf8(sym)[k]) # Undefined

\* an encodeWord call on an initialized tokenizer, for a word that is not
\* itself an added token
Encoded ==
  /\ tokCall.fn = "encodeWord"
  /\ tokCall.on # 0
  /\ AddedGet(TokenizerJson(tokCall.on), tokCall.word) = Undefined

IdsOf(value) == {value[k] : k \in 1..Len(value)}

\* encodeWord returned, and returned ids of the vocabulary or the unknown id
ReturnsIds ==
  (tokCall.fn = "encodeWord" /\ tokCall.on # 0) =>
    /\ tokCall.status = "returned"
    /\ IdsOf(tokCall.value) \subseteq
         KnownIds(TokenizerJson(tokCall.on)) \cup {TokUnkTokenId(tokCall.on)}

C14_RaisesUninitialized ==
  (tokCall.fn \in {"encodeWord", "getSpecialTokenId", "getClsTokenId", "getSepTokenId"}
     /\ tokCall.on = 0)
    => (tokCall.status = "threw" /\ tokCall.value = <<>>)

C14_Witness ==
  /\ tokenizer = 0
  /\ tokCall.fn = "encodeWord"
  /\ tokCall.word = <<"a">>
  /\ tokCall.status = "threw"

(***************************************************************************)
(* Batch processor (processor.ts): buildTokenSequence, prepareBatch and    *)
(* prepareSpanBatch.                                                       *)
(***************************************************************************)
\* texts per batch, characters per text and span widths explored
MaxBatch == 2
MaxBatchTextLen == 2
MaxSpanWidth == 2
BatchAlphabet == {"a", "-", " "}

DummySpan == [idx |-> <<0, 0>>, mask |-> 0]

\* loops that omit a span that runs past the last word
ValidSpansOnly(numWords, width) ==
  SelectSeq([k \in 1..(numWords * width) |->
               [idx |-> <<(k - 1) \div width, ((k - 1) \div width) + ((k - 1) % width)>>,
                mask |-> 1]],
            LAMBDA sp : sp.idx[2] < numWords)

\* the nested loops over start word i and width w
CandidateSpans(numWords, width) ==
  [k \in 1..(numWords * width) |->
     LET i == (k - 1) \div width
         w == (k - 1) % width
     IN IF i + w < numWords
        THEN [idx |-> <<i, i + w>>, mask |-> 1]
        ELSE DummySpan]

\* a span list left as the loops built it
NoEdgeCase(spans) == spans

\* if (spanIdx.length === 0) push the dummy span
SpanEdgeCase(spans) == IF Len(spans) = 0 THEN <<DummySpan>> ELSE spans

\* the span list pushed to allSpanIdx / allSpanMask for one text
SpansOfText(t, width) ==
  SpanEdgeCase(CandidateSpans(Len(SplitWords(t)), width))

MaxOf(S) == CHOOSE x \in S : \A y \in S : y <= x

\* pad a span list to maxSpans entries with [0, 0] / 0
PadSpans(spans, maxSpans) ==
  [k \in 1..Max(maxSpans, Len(spans)) |->
     IF k <= Len(spans) THEN spans[k] ELSE DummySpan]

\* the labels of a batch: one of one word and one of two words
ProcEntities == << <<"a">>, <<"a", " ", "b">> >>

RECURSIVE Flatten(_)
\* push(...ids) of every list in turn
Flatten(ss) == IF ss = <<>> THEN <<>> ELSE Head(ss) \o Flatten(Tail(ss))

\* promptTokenIds: <<ENT>> and the ids of the label's words for every
\* label, then <<SEP>>
PromptTokenIds(v, entities, entToken, sepToken) ==
  Flatten([k \in 1..Len(entities) |->
             <<TokGetTokenId(v, entToken)>> \o
               Flatten([j \in 1..Len(SplitWS(entities[k])) |->
                          TokEncodeWord(v, SplitWS(entities[k])[j])])])
    \o <<TokGetTokenId(v, sepToken)>>

\* a words mask that carries the ordinal on every sub-token of the word
EveryTokenMask(ids, ordinal) == [j \in 1..Len(ids) |-> ordinal]

\* wordsMask.push(j === 0 ? wordCounter : 0) over the sub-tokens of a word
WordMask(ids, ordinal) == [j \in 1..Len(ids) |-> IF j = 1 THEN ordinal ELSE 0]

\* buildTokenSequence(text, entities, entToken, sepToken)
BuildTokenSequence(v, t, entities, entToken, sepToken) ==
  LET prompt == PromptTokenIds(v, entities, entToken, sepToken)
      words == SplitWords(t)
      wordIds == [k \in 1..Len(words) |-> TokEncodeWord(v, words[k].word)]
      ids == <<TokClsTokenId(v)>> \o prompt \o Flatten(wordIds)
  IN [inputIds |-> ids,
      attentionMask |-> [k \in 1..Len(ids) |-> 1],
      wordsMask |-> <<0>> \o [k \in 1..Len(prompt) |-> 0]
                      \o Flatten([k \in 1..Len(words) |-> WordMask(wordIds[k], k)]),
      words |-> words,
      wordsStartIdx |-> [k \in 1..Len(words) |-> words[k].start],
      wordsEndIdx |-> [k \in 1..Len(words) |-> words[k].end],
      tokens |-> [k \in 1..Len(words) |-> words[k].word]]

\* while (length < maxLen) push(0)
PadTo(seq, maxLen) == seq \o [k \in 1..(maxLen - Len(seq)) |-> 0]

\* F(x), with x evaluated once
Eval(F(_), x) == CHOOSE r \in {F(y) : y \in {x}} : TRUE

RECURSIVE BuildAll(_, _, _, _)
\* for (const text of texts) buildTokenSequence(text, ...)
BuildAll(v, ts, entToken, sepToken) ==
  IF ts = <<>> THEN <<>>
  ELSE <<BuildTokenSequence(v, Head(ts), ProcEntities, entToken, sepToken)>>
         \o BuildAll(v, Tail(ts), entToken, sepToken)

\* the padded tensors of the token sequences of a batch
Padded(seqs) ==
  LET maxLen == MaxOf({Len(seqs[b].inputIds) : b \in 1..Len(seqs)})
  IN [inputIds |-> [b \in 1..Len(seqs) |-> PadTo(seqs[b].inputIds, maxLen)],
      attentionMask |-> [b \in 1..Len(seqs) |-> PadTo(seqs[b].attentionMask, maxLen)],
      wordsMask |-> [b \in 1..Len(seqs) |-> PadTo(seqs[b].wordsMask, maxLen)],
      textLengths |-> [b \in 1..Len(seqs) |-> Len(seqs[b].words)],
      batchTokens |-> [b \in 1..Len(seqs) |-> seqs[b].tokens],
      batchWordsStartIdx |-> [b \in 1..Len(seqs) |-> seqs[b].wordsStartIdx],
      batchWordsEndIdx |-> [b \in 1..Len(seqs) |-> seqs[b].wordsEndIdx]]

\* the tensors prepareBatch and prepareSpanBatch have in common
TokenTensors(v, ts, entToken, sepToken) ==
  Eval(Padded, BuildAll(v, ts, entToken, sepToken))

\* prepareBatch(texts, labels, entToken, sepToken), with an initialized
\* tokenizer
TokenBatch(tt) ==
  [status |-> "returned", kind |-> "token",
   inputIds |-> tt.inputIds, attentionMask |-> tt.attentionMask,
   wordsMask |-> tt.wordsMask, textLengths |-> tt.textLengths,
   batchTokens |-> tt.batchTokens,
   batchWordsStartIdx |-> tt.batchWordsStartIdx,
   batchWordsEndIdx |-> tt.batchWordsEndIdx,
   built |-> <<>>, spanIdx |-> <<>>, spanMask |-> <<>>]
PrepareBatchOk(v, ts) == Eval(TokenBatch, TokenTensors(v, ts, EntToken, SepToken))

\* prepareSpanBatch(texts, labels, width, entToken, sepToken), with an
\* initialized tokenizer
PrepareSpanBatchOk(v, ts, width) ==
  LET built == [b \in 1..Len(ts) |-> SpansOfText(ts[b], width)]
      maxSpans == MaxOf({Len(built[b]) : b \in 1..Len(ts)})
      padded == [b \in 1..Len(ts) |-> PadSpans(built[b], maxSpans)]
      SpanBatch(tt) ==
        [status |-> "returned", kind |-> "span",
         inputIds |-> tt.inputIds, attentionMask |-> tt.attentionMask,
         wordsMask |-> tt.wordsMask, textLengths |-> tt.textLengths,
         batchTokens |-> tt.batchTokens,
         batchWordsStartIdx |-> tt.batchWordsStartIdx,
         batchWordsEndIdx |-> tt.batchWordsEndIdx,
         built |-> built,
         spanIdx |-> [b \in 1..Len(ts) |->
                        [k \in 1..Len(padded[b]) |-> padded[b][k].idx]],
         spanMask |-> [b \in 1..Len(ts) |->
                         [k \in 1..Len(padded[b]) |-> padded[b][k].mask]]]
  IN Eval(SpanBatch, TokenTensors(v, ts, EntToken, SepToken))

\* the exported functions raise in buildTokenSequence, which asks the
\* tokenizer for the special token ids first, while no tokenizer is
\* initialized
BatchThrew == [status |-> "threw"]

\* prepareBatch(texts, labels)
PrepareBatch ==
  /\ batch.status = "none"
  /\ batch' = IF tokenizer = 0 THEN BatchThrew ELSE PrepareBatchOk(tokenizer, texts)
  /\ UNCHANGED <<text, orchVars, tasks, anonVars, texts, maxWidth, tokCall, decode, win>>

\* prepareSpanBatch(texts, labels, maxWidth)
PrepareSpanBatch ==
  /\ batch.status = "none"
  /\ batch' = IF tokenizer = 0 THEN BatchThrew
              ELSE PrepareSpanBatchOk(tokenizer, texts, maxWidth)
  /\ UNCHANGED <<text, orchVars, tasks, anonVars, texts, maxWidth, tokCall, decode, win>>

InitBatch ==
  /\ texts \in SeqsUpTo(SeqsUpTo(BatchAlphabet, MaxBatchTextLen), MaxBatch) \ {<<>>}
  /\ maxWidth \in 1..MaxSpanWidth
  /\ batch = NoBatch
  /\ tokCall = NoCall
  /\ decode = NoDecode
  /\ win = NoWindows
  /\ text = <<>>
  /\ store \in {FullStore(v) : v \in DetectVariants}
  /\ tokenizer \in {0, store.tokenizer}
  /\ ortLib = "unloaded"
  /\ sessions = [k \in 1..MaxSessions |-> NoSession]
  /\ session = 0
  /\ ort = FALSE
  /\ config = DefaultConfig
  /\ initialized = FALSE
  /\ isSpanMode = FALSE
  /\ tasks = [t \in Tasks |-> IdleTask]
  /\ allMatches = <<>>
  /\ anonymized = <<>>
  /\ mappings = <<>>

NextBatch == PrepareSpanBatch

SpecBatch == InitBatch /\ [][NextBatch]_vars

\* a text without words: empty, or whitespace only
ZeroWords(t) == \A k \in 1..Len(t) : IsSpace(t[k])

\* C9 -- for a text with zero words prepareSpanBatch builds exactly one
\* span entry, [0, 0] with mask 0: the span tensors of that text are never
\* empty, hold nothing but that dummy entry, and hold exactly one entry
\* when the text is the whole batch.
C9_ZeroWordDummy ==
  batch.status = "returned" =>
    \A b \in 1..Len(texts) :
      ZeroWords(texts[b]) =>
        /\ batch.built[b] = <<DummySpan>>
        /\ Len(batch.spanIdx[b]) >= 1
        /\ Len(batch.spanMask[b]) = Len(batch.spanIdx[b])
        /\ \A k \in 1..Len(batch.spanIdx[b]) :
             batch.spanIdx[b][k] = <<0, 0>> /\ batch.spanMask[b][k] = 0
        /\ Len(texts) = 1 => Len(batch.spanIdx[b]) = 1

\* prepareSpanBatch returned for a batch of one whitespace-only text
C9_Witness ==
  /\ batch.status = "returned"
  /\ Len(texts) = 1
  /\ Len(texts[1]) > 0
  /\ ZeroWords(texts[1])
  /\ batch.spanIdx[1] = <<(<<0, 0>>)>>

(***************************************************************************)
(* Model manager (GLiNERModelManager.web.ts).  Every idbGet, idbPut and    *)
(* idbDelete is a transaction of its own and is awaited, so the calls of   *)
(* the manager interleave between two of them.                             *)
(***************************************************************************)
\* the variant MODEL_FILES points to
ServerVariant == 1
\* the order in which checkGLiNERModelExists, loadGLiNERModelFiles and
\* deleteGLiNERModel go through the keys, and the order of downloadGLiNERModel
ReadOrder == <<"model", "tokenizer", "glinerConfig">>
PutOrder == <<"glinerConfig", "tokenizer", "model">>
KeyOf(rec) == IF rec.kind = "download" THEN PutOrder[rec.i] ELSE ReadOrder[rec.i]

\* a manager call settles: checkGLiNERModelExists and loadGLiNERModelFiles
\* resolve with a value, the other two resolve or reject
Settled(rec, st, status, value) ==
  [rec EXCEPT !.pc = "done", !.status = status, !.res = value, !.at = st]

\* the value checkGLiNERModelExists computes from what it read
CheckResult(files) ==
  files.model # 0 /\ files.tokenizer # 0 /\ files.glinerConfig # 0
\* the value loadGLiNERModelFiles computes from what it read (NoFiles is null)
LoadResult(files) ==
  IF ~Truthy(files.model) \/ ~Truthy(files.tokenizer) \/ ~Truthy(files.glinerConfig)
  THEN NoFiles ELSE files

\* checkGLiNERModelExists / loadGLiNERModelFiles / downloadGLiNERModel /
\* deleteGLiNERModel up to the first transaction
StartManager(t, kind) ==
  /\ Free(t)
  /\ tasks' = [tasks EXCEPT ![t] =
       [IdleTask EXCEPT !.kind = kind, !.status = "running", !.pc = "idb", !.i = 1]]
  /\ UNCHANGED <<text, procVars, orchVars, anonVars>>

\* one idbGet of checkGLiNERModelExists or loadGLiNERModelFiles; a raised
\* error is caught and gives false or null
ManagerGet(t) ==
  /\ Pc(t) = "idb"
  /\ tasks[t].kind \in {"check", "load"}
  /\ \E ok \in BOOLEAN :
       LET rec == tasks[t]
           files == [rec.files EXCEPT ![KeyOf(rec)] = store[KeyOf(rec)]]
           failed == IF rec.kind = "check" THEN FALSE ELSE NoFiles
           value == IF rec.kind = "check" THEN CheckResult(files) ELSE LoadResult(files)
       IN tasks' = [tasks EXCEPT ![t] =
            IF ~ok THEN Settled(rec, store, "resolved", failed)
            ELSE IF rec.i = Len(ReadOrder)
            THEN Settled([rec EXCEPT !.files = files], store, "resolved", value)
            ELSE [rec EXCEPT !.files = files, !.i = rec.i + 1]]
  /\ UNCHANGED <<text, procVars, orchVars, anonVars>>

\* downloadGLiNERModel: one fetch and its idbPut; a failed fetch or put
\* rejects the call and leaves what was stored so far
ManagerPut(t) ==
  /\ Pc(t) = "idb"
  /\ tasks[t].kind = "download"
  /\ \E ok \in BOOLEAN, body \in {ServerVariant, FalsyJson} :
       LET rec == tasks[t]
           key == KeyOf(rec)
           stored == [store EXCEPT ![key] =
                        IF key = "glinerConfig" THEN body ELSE ServerVariant]
       IN IF ~ok
          THEN /\ tasks' = [tasks EXCEPT ![t] = Settled(rec, store, "rejected", <<>>)]
               /\ store' = store
          ELSE /\ store' = stored
               /\ tasks' = [tasks EXCEPT ![t] =
                    IF rec.i = Len(PutOrder) THEN Settled(rec, stored, "resolved", <<>>)
                    ELSE [rec EXCEPT !.i = rec.i + 1]]
  /\ UNCHANGED <<text, procVars, ortLib, sessions, session, ort, config, initialized,
                 isSpanMode, tokenizer, anonVars>>

\* deleteGLiNERModel: one idbDelete; an error is rethrown
ManagerDelete(t) ==
  /\ Pc(t) = "idb"
  /\ tasks[t].kind = "delete"
  /\ \E ok \in BOOLEAN :
       LET rec == tasks[t]
           left == [store EXCEPT ![KeyOf(rec)] = 0]
       IN IF ~ok
          THEN /\ tasks' = [tasks EXCEPT ![t] = Settled(rec, store, "rejected", <<>>)]
               /\ store' = store
          ELSE /\ store' = left
               /\ tasks' = [tasks EXCEPT ![t] =
                    IF rec.i = Len(ReadOrder) THEN Settled(rec, left, "resolved", <<>>)
                    ELSE [rec EXCEPT !.i = rec.i + 1]]
  /\ UNCHANGED <<text, procVars, ortLib, sessions, session, ort, config, initialized,
                 isSpanMode, tokenizer, anonVars>>

InitManager ==
  /\ text = <<>>
  /\ store \in {NoFiles, FullStore(ServerVariant)}
  /\ InitOrch

NextManager ==
  \/ \E t \in Tasks : StartManager(t, "check")
  \/ \E t \in Tasks : StartManager(t, "load")
  \/ \E t \in Tasks : StartManager(t, "download")
  \/ \E t \in Tasks : StartManager(t, "delete")
  \/ \E t \in Tasks : ManagerGet(t)
  \/ \E t \in Tasks : ManagerPut(t)
  \/ \E t \in Tasks : ManagerDelete(t)

SpecManager == InitManager /\ [][NextManager]_vars

\* all three blobs are in the store
AllPresent(st) == st.model # 0 /\ st.tokenizer # 0 /\ st.glinerConfig # 0

\* C15 -- checkGLiNERModelExists returns true exactly when the three blobs
\* are in the store, so false in the intermediate states of a first download
\* and after a deletion, and loadGLiNERModelFiles returns null exactly when
\* checkGLiNERModelExists would return false.
C15_PresenceCheck ==
  \A t \in Tasks :
    tasks[t].status = "resolved" =>
      /\ tasks[t].kind = "check" => (tasks[t].res <=> AllPresent(tasks[t].at))
      /\ tasks[t].kind = "load" =>
           ((tasks[t].res = NoFiles) <=> ~AllPresent(tasks[t].at))

(***************************************************************************)
(* greedySearch on its own, for every short list of candidates.            *)
(***************************************************************************)
MaxGreedyPos == 2
MaxGreedyLen == 3
GreedyScores == {600, 900}

\* the candidates a decoder may push: a range of the text with a score
GreedyCandidates ==
  {[text |-> <<>>, label |-> Labels[1], start |-> a, end |-> b, score |-> sc] :
     a \in 0..MaxGreedyPos, b \in 0..MaxGreedyPos, sc \in GreedyScores}

InitGreedy ==
  /\ text = <<>>
  /\ store = NoFiles
  /\ ortLib = "unloaded"
  /\ sessions = [k \in 1..MaxSessions |-> NoSession]
  /\ session = 0
  /\ ort = FALSE
  /\ config = DefaultConfig
  /\ initialized = FALSE
  /\ isSpanMode = FALSE
  /\ tokenizer = 0
  /\ tasks = [t \in Tasks |-> IdleTask]
  /\ allMatches = <<>>
  /\ anonymized = <<>>
  /\ mappings = <<>>
  /\ texts = <<>>
  /\ maxWidth = DefaultMaxWidth
  /\ batch = NoBatch
  /\ tokCall = NoCall
  /\ win = NoWindows
  /\ \E c \in SeqsUpTo({x \in GreedyCandidates : x.start <= x.end}, MaxGreedyLen) :
       decode = [status |-> "called", candidates |-> c, result |-> <<>>]

GreedySearchCall ==
  /\ decode.status = "called"
  /\ decode' = [decode EXCEPT !.status = "returned",
                              !.result = GreedySearch(decode.candidates)]
  /\ UNCHANGED <<text, orchVars, tasks, anonVars, texts, maxWidth, batch, tokCall, win>>

NextGreedy == GreedySearchCall

SpecGreedy == InitGreedy /\ [][NextGreedy]_vars

\* two ranges share a position, as half-open intervals
Meet(x, y) == x.start < y.end /\ y.start < x.end

ElemsOf(es) == {es[k] : k \in 1..Len(es)}

\* C16 -- greedySearch returns candidates of its input, pairwise
\* non-overlapping as half-open intervals and in ascending order of start;
\* every candidate it drops overlaps a returned candidate whose score is at
\* least its own, so a candidate of strictly highest score is returned.
C16_GreedySearch ==
  decode.status = "returned" =>
    LET cands == ElemsOf(decode.candidates)
        kept == ElemsOf(decode.result)
    IN /\ kept \subseteq cands
       /\ Len(decode.result) <= Len(decode.candidates)
       /\ \A j, k \in 1..Len(decode.result) :
            j # k => ~Meet(decode.result[j], decode.result[k])
       /\ \A j, k \in 1..Len(decode.result) :
            j < k => decode.result[j].start <= decode.result[k].start
       /\ \A c \in cands \ kept :
            \E a \in kept : Meet(c, a) /\ a.score >= c.score
       /\ \A c \in cands :
            (\A d \in cands \ {c} : d.score < c.score) => c \in kept

\* a call that kept two candidates and dropped a third that overlaps one
C16_Witness ==
  /\ decode.status = "returned"
  /\ Len(decode.candidates) = 3
  /\ Len(decode.result) = 2
  /\ \E c \in ElemsOf(decode.candidates) \ ElemsOf(decode.result) :
       \E a \in ElemsOf(decode.result) : Meet(c, a) /\ a.score > c.score

(***************************************************************************)
(* Hybrid anonymization: what the merge keeps.                             *)
(***************************************************************************)
\* the step in which anonymizeHybrid of call t merges, replaces and returns
HybridStep(t) == Pc(t) = "hybrid_resume" /\ tasks'[t].pc = "done"

\* C17 -- when a model detection and a regex detection overlap, also on the
\* identical range, the merge keeps the model's detection and drops the
\* regex detection; the detections it keeps are pairwise non-overlapping.
C17_ModelPreferred ==
  [][\A t \in Tasks :
       HybridStep(t) =>
         /\ \A j \in 1..Len(tasks[t].res) :
              \A k \in 1..Len(allMatches') :
                allMatches'[k].source = "regex" =>
                  ~Meet(tasks[t].res[j], allMatches'[k])
         /\ NonOverlapping(allMatches')]_vars

RECURSIVE SplicedFrom(_, _, _)
\* the text from offset pos on, with the ranges of ms (ascending, disjoint)
\* replaced by their placeholders and everything between them kept
SplicedFrom(t, ms, pos) ==
  IF ms = <<>> THEN SubSeq(t, pos + 1, Len(t))
  ELSE SubSeq(t, pos + 1, Head(ms).start) \o Head(ms).placeholder
         \o SplicedFrom(t, Tail(ms), Head(ms).end)

\* the accepted detections lie in the text, one after another
RangesInOrder(t, ms) ==
  /\ \A k \in 1..Len(ms) : 0 <= ms[k].start /\ ms[k].start <= ms[k].end
                           /\ ms[k].end <= Len(t)
  /\ \A k \in 1..(Len(ms) - 1) : ms[k].end <= ms[k + 1].start

\* C18 -- the text anonymizeHybrid returns is the original text with the
\* range of each accepted detection replaced by its placeholder and every
\* character outside those ranges unchanged and in order.
C18_ReplacementFrame ==
  [][\A t \in Tasks :
       HybridStep(t) =>
         LET asc == SortByStart(allMatches')
         IN /\ RangesInOrder(text, asc)
            /\ anonymized' = SplicedFrom(text, asc, 0)]_vars

\* a hybrid call that replaced two detections
C18_Witness ==
  /\ \E t \in Tasks : tasks[t].kind = "anonymize" /\ tasks[t].status = "resolved"
                      /\ tasks[t].path = "hybrid"
  /\ Len(allMatches) = 2
  /\ allMatches[1].source # allMatches[2].source
  /\ anonymized = SplicedFrom(text, SortByStart(allMatches), 0)
  /\ Len(anonymized) > Len(text)

(***************************************************************************)
(* detectPIIChunked: where the windows lie in the text.                    *)
(***************************************************************************)
\* the offsets at which the pieces of text.split(/\s+/) start: offset 0 and
\* the end of every maximal run of whitespace
PieceStarts(t) ==
  {0} \cup {p \in 1..Len(t) : IsSpace(t[p]) /\ (p = Len(t) \/ ~IsSpace(t[p + 1]))}

\* the offset at which word i (0-based) of text.split(/\s+/) occurs
ActualStart(t, i) ==
  CHOOSE p \in PieceStarts(t) : Cardinality({q \in PieceStarts(t) : q < p}) = i

\* C19 -- the character offset detectPIIChunked computes for a window is the
\* offset in the original text at which the window's first word occurs,
\* also when words repeat and when words are separated by several
\* whitespace characters.
C19_ChunkStartChar ==
  \A t \in Tasks :
    (tasks[t].chunked /\ Pc(t) = "run") =>
      tasks[t].off = ActualStart(text, tasks[t].i)

(***************************************************************************)
(* The window loop of detectPIIChunked with the ceilings and the overlap   *)
(* of the source, on the word indices alone.                               *)
(***************************************************************************)
\* const maxWords = _isSpanMode ? 200 : 500
SpanCeiling == 200
TokenCeiling == 500
\* const OVERLAP = 50
OverlapWords == 50
\* the longest input, in words over the ceiling
MaxExtraWords == 450

InitWindows ==
  /\ text = <<>>
  /\ store = NoFiles
  /\ ortLib = "unloaded"
  /\ sessions = [k \in 1..MaxSessions |-> NoSession]
  /\ session = 0
  /\ ort = FALSE
  /\ config = DefaultConfig
  /\ initialized = FALSE
  /\ isSpanMode = FALSE
  /\ tokenizer = 0
  /\ tasks = [t \in Tasks |-> IdleTask]
  /\ allMatches = <<>>
  /\ anonymized = <<>>
  /\ mappings = <<>>
  /\ texts = <<>>
  /\ maxWidth = DefaultMaxWidth
  /\ batch = NoBatch
  /\ tokCall = NoCall
  /\ decode = NoDecode
  /\ \E chunkSize \in {SpanCeiling, TokenCeiling} :
       \E n \in (chunkSize + 1)..(chunkSize + MaxExtraWords) :
         win = [status |-> "looping", n |-> n, chunkSize |-> chunkSize, i |-> 0,
                windows |-> <<>>]

\* one pass of `for (let i = 0; i < words.length; i += chunkSize - OVERLAP)`
WindowStep ==
  /\ win.status = "looping"
  /\ win' = IF win.i < win.n
            THEN [win EXCEPT !.windows = Append(@, [from |-> win.i,
                                 to |-> WindowEnd(win.i, win.chunkSize, win.n)]),
                             !.i = NextWindow(win.i, win.chunkSize, OverlapWords)]
            ELSE [win EXCEPT !.status = "done"]
  /\ UNCHANGED <<text, orchVars, tasks, anonVars, texts, maxWidth, batch, tokCall, decode>>

NextWindows == WindowStep

SpecWindows == InitWindows /\ [][NextWindows]_vars /\ WF_vars(WindowStep)

\* the words two consecutive windows have in common
Shared(w, v) == IF w.to > v.from THEN w.to - v.from ELSE 0

\* window k starts at (k - 1)(ceiling - 50), holds ceiling-many words or the
\* words left, and every word is in a window
WindowsCover ==
  /\ \A k \in 1..Len(win.windows) :
       /\ win.windows[k].from = (k - 1) * (win.chunkSize - OverlapWords)
       /\ win.windows[k].to = Min(win.windows[k].from + win.chunkSize, win.n)
       /\ win.windows[k].from < win.windows[k].to
  /\ win.status = "done" =>
       \A w \in 0..(win.n - 1) :
         \E k \in 1..Len(win.windows) :
           win.windows[k].from <= w /\ w < win.windows[k].to

\* C20 as stated: every window shares exactly 50 words with the next one
C20_AsStated ==
  /\ []WindowsCover
  /\ [](\A k \in 1..(Len(win.windows) - 1) :
          Shared(win.windows[k], win.windows[k + 1]) = OverlapWords)
  /\ <>(win.status = "done")

\* C20 -- over the ceiling, the windows start every (ceiling - 50) words and
\* hold ceiling-many words, the last ones what is left; every word is in a
\* window; a window shares exactly 50 words with the next one when the next
\* one holds at least 50 words, and otherwise the next one lies wholly
\* inside it; the loop terminates.
C20_Windows ==
  /\ []WindowsCover
  /\ [](\A k \in 1..(Len(win.windows) - 1) :
          Shared(win.windows[k], win.windows[k + 1]) =
            Min(OverlapWords, win.windows[k + 1].to - win.windows[k + 1].from))
  /\ <>(win.status = "done")

\* a finished loop of three windows whose last window holds fewer than 50
\* words
C20_Witness ==
  /\ win.status = "done"
  /\ Len(win.windows) = 3
  /\ win.windows[3].to - win.windows[3].from < OverlapWords
  /\ Shared(win.windows[1], win.windows[2]) = OverlapWords

(***************************************************************************)
(* The processor on its own: prepareBatch and prepareSpanBatch for every   *)
(* short batch and every tokenizer.                                        *)
(***************************************************************************)
\* "e" (U+00E9) is not a \w character: it is a word of its own
ProcAlphabet == {"a", "e", " "}
MaxProcTextLen == 3
\* characters of the second text of a batch
MaxSecondTextLen == 1
\* batches of one text, or of a text and a short second one
ProcBatches ==
  {<<t>> : t \in SeqsUpTo(ProcAlphabet, MaxProcTextLen)}
    \cup {<<t, u>> : t \in SeqsUpTo(ProcAlphabet, MaxProcTextLen),
                     u \in SeqsUpTo(ProcAlphabet, MaxSecondTextLen)}

InitProc ==
  /\ texts \in ProcBatches
  /\ maxWidth \in 1..MaxSpanWidth
  /\ batch = NoBatch
  /\ tokCall = NoCall
  /\ decode = NoDecode
  /\ win = NoWindows
  /\ text = <<>>
  /\ store = NoFiles
  /\ tokenizer \in Variants
  /\ ortLib = "unloaded"
  /\ sessions = [k \in 1..MaxSessions |-> NoSession]
  /\ session = 0
  /\ ort = FALSE
  /\ config = DefaultConfig
  /\ initialized = FALSE
  /\ isSpanMode = FALSE
  /\ tasks = [t \in Tasks |-> IdleTask]
  /\ allMatches = <<>>
  /\ anonymized = <<>>
  /\ mappings = <<>>

NextProc == PrepareBatch \/ PrepareSpanBatch

SpecProc == InitProc /\ [][NextProc]_vars

\* the non-zero entries of a mask, left to right
NonZero(m) == SelectSeq(m, LAMBDA x : x # 0)

RECURSIVE TokensBefore(_, _, _)
\* the number of sub-tokens of the first k words
TokensBefore(v, words, k) ==
  IF k = 0 THEN 0
  ELSE TokensBefore(v, words, k - 1) + Len(TokEncodeWord(v, words[k].word))

\* C23 -- in every token sequence of a batch wordsMask is 0 at [CLS], at
\* every prompt position and at every padding position; every word has at
\* least one sub-token, the first sub-token of word k carries k, and the
\* non-zero entries read left to right are 1, 2, ..., numWords.
C23_WordsMask ==
  batch.status = "returned" =>
    \A b \in 1..Len(texts) :
      LET m == batch.wordsMask[b]
          words == SplitWords(texts[b])
          n == Len(words)
          promptLen == Len(PromptTokenIds(tokenizer, ProcEntities, EntToken, SepToken))
          first(k) == 1 + promptLen + TokensBefore(tokenizer, words, k - 1) + 1
      IN /\ Len(m) = Len(batch.inputIds[b])
         /\ Len(m) = Len(batch.attentionMask[b])
         /\ m[1] = 0
         /\ \A k \in 2..(1 + promptLen) : m[k] = 0
         /\ \A k \in 1..Len(m) : batch.attentionMask[b][k] = 0 => m[k] = 0
         /\ NonZero(m) = [k \in 1..n |-> k]
         /\ \A k \in 1..n :
              /\ Len(TokEncodeWord(tokenizer, words[k].word)) >= 1
              /\ m[first(k)] = k
         /\ \A k \in 1..Len(m) :
              batch.attentionMask[b][k] = 1 <=>
                k <= 1 + promptLen + TokensBefore(tokenizer, words, n)

\* a batch of two texts: a word of three sub-tokens in the first, padding
\* in the second
C23_Witness ==
  /\ batch.status = "returned"
  /\ batch.kind = "token"
  /\ tokenizer = 1
  /\ texts = << <<"e", "a">>, <<"a">> >>
  /\ batch.wordsMask[1] = <<0, 0, 0, 0, 0, 0, 0, 0, 1, 0, 0, 2>>
  /\ batch.wordsMask[2] = <<0, 0, 0, 0, 0, 0, 0, 0, 1, 0, 0, 0>>
  /\ batch.attentionMask[2] = <<1, 1, 1, 1, 1, 1, 1, 1, 1, 0, 0, 0>>

\* C24 -- for a text of numWords >= 1 words and a positive width
\* prepareSpanBatch builds numWords * maxWidth span entries before it pads
\* the batch; the entry of word i and width w is [i, i + w] with mask 1
\* when i + w < numWords and [0, 0] with mask 0 otherwise; the padded
\* tensors start with these entries and every entry after them has mask 0.
C24_SpanEntries ==
  (batch.status = "returned" /\ batch.kind = "span") =>
    \A b \in 1..Len(texts) :
      LET n == Len(SplitWords(texts[b]))
      IN n >= 1 =>
           /\ Len(batch.built[b]) = n * maxWidth
           /\ \A i \in 0..(n - 1) : \A w \in 0..(maxWidth - 1) :
                batch.built[b][i * maxWidth + w + 1] =
                  IF i + w < n THEN [idx |-> <<i, i + w>>, mask |-> 1]
                  ELSE [idx |-> <<0, 0>>, mask |-> 0]
           /\ Len(batch.spanIdx[b]) = Len(batch.spanMask[b])
           /\ Len(batch.spanIdx[b]) >= n * maxWidth
           /\ \A k \in 1..(n * maxWidth) :
                /\ batch.spanIdx[b][k] = batch.built[b][k].idx
                /\ batch.spanMask[b][k] = batch.built[b][k].mask
           /\ \A k \in (n * maxWidth + 1)..Len(batch.spanIdx[b]) :
                batch.spanMask[b][k] = 0

\* two words at width 2 next to a text of one word, which is padded
C24_Witness ==
  /\ batch.status = "returned"
  /\ batch.kind = "span"
  /\ maxWidth = 2
  /\ texts = << <<"a", " ", "a">>, <<"a">> >>
  /\ batch.spanIdx[1] = << <<0, 0>>, <<0, 1>>, <<1, 1>>, <<0, 0>> >>
  /\ batch.spanMask[1] = <<1, 1, 1, 0>>
  /\ batch.spanIdx[2] = << <<0, 0>>, <<0, 0>>, <<0, 0>>, <<0, 0>> >>
  /\ batch.spanMask[2] = <<1, 0, 0, 0>>

(***************************************************************************)
(* Token-level decoder (decoder.ts, decodeTokenLevel).  The logits are the *)
(* session's output, which the program does not determine: a flat tensor   *)
(* of shape [batch, inputLength, numEntities, 3].                          *)
(***************************************************************************)
\* the logits a tensor holds: ColdLogit everywhere but at a few hot cells
ColdLogit == 0 - 2
HotLogits == {0, 2}
\* 1 / (1 + Math.exp(-x)), per mille
Sigmoid(x) ==
  CASE x = 0 - 2 -> 119
    [] x = 0 -> 500
    [] x = 2 -> 881

\* threshold = 0.3 of the destructuring
TokenThresholdParam(arg) == IF arg = NoThreshold THEN TOKEN_THRESHOLD ELSE arg

\* Map.get(key) on a map held as a set of <<key, value>> pairs
MapGet(map, key) ==
  IF \E p \in map : p[1] = key
  THEN (CHOOSE p \in map : p[1] = key)[2]
  ELSE Undefined

\* a mapping that gives every position of the mask an output position
MapEveryPosition(mask) ==
  {<<k - 1, Max(mask[k] - 1, 0)>> : k \in 1..Len(mask)}

\* outputPosToTextWord: the non-zero entries of the mask, in order, get the
\* output positions 0, 1, ... and map to val - 1
OutputPosToTextWord(mask) ==
  LET vals == SelectSeq(mask, LAMBDA val : val > 0)
  IN {<<k - 1, vals[k] - 1>> : k \in 1..Len(vals)}

\* logits[batchOffset + w * tokenStride + e * entityStride + p]
LogitAt(logits, inputLength, numEntities, b, w, e, p) ==
  logits[b * (inputLength * numEntities * 3) + w * (numEntities * 3) + e * 3 + p]

\* the cells of the loops over w and e whose text word is mapped, in order
MappedCells(posMap, inputLength, numEntities) ==
  SelectSeq([k \in 1..(inputLength * numEntities) |->
               [w |-> (k - 1) \div numEntities, entity |-> (k - 1) % numEntities,
                word |-> MapGet(posMap, (k - 1) \div numEntities)]],
            LAMBDA c : c.word # Undefined)

\* starts (p = 0) and ends (p = 1): the cells whose score meets the threshold
Marks(o, b, posMap, p) ==
  LET cells == MappedCells(posMap, o.inputLength, o.numEntities)
      score(c) == Sigmoid(LogitAt(o.logits, o.inputLength, o.numEntities, b, c.w, c.entity, p))
      hits == SelectSeq(cells, LAMBDA c : score(c) >= o.threshold)
  IN [k \in 1..Len(hits) |->
       [word |-> hits[k].word, entity |-> hits[k].entity, score |-> score(hits[k])]]

\* insideMap.get(`${w}-${e}`) ?? 0: the last cell set for the key
InsideGet(o, b, posMap, word, entity) ==
  LET cells == MappedCells(posMap, o.inputLength, o.numEntities)
      hits == {k \in 1..Len(cells) : cells[k].word = word /\ cells[k].entity = entity}
  IN IF hits = {} THEN 0
     ELSE LET k == CHOOSE j \in hits : \A m \in hits : m <= j
          IN Sigmoid(LogitAt(o.logits, o.inputLength, o.numEntities, b,
                             cells[k].w, cells[k].entity, 2))

\* a decoder that accepts a span whatever lies inside it
NoInsideCheck(o, b, posMap, s, en) == TRUE

\* valid: every word strictly between the start and the end word has an
\* inside score that meets the threshold
InsideValid(o, b, posMap, s, en) ==
  \A w \in (s.word + 1)..(en.word - 1) :
    InsideGet(o, b, posMap, w, s.entity) >= o.threshold

RECURSIVE SumInside(_, _, _, _, _, _)
SumInside(o, b, posMap, entity, from, to) ==
  IF from > to THEN 0
  ELSE InsideGet(o, b, posMap, from, entity) + SumInside(o, b, posMap, entity, from + 1, to)

\* avgScore is a quotient by 2 + insideCount; scores are kept as multiples
\* of 1 / ScoreDen per mille, which is exact for quotients by 2 and by 3
ScoreDen == 6
AvgScore(sum, count) == (sum * ScoreDen) \div count

\* decodeTokenLevel: the candidates of example b, in the order of the loops
\* over starts and ends
TokenCandidates(o, b, posMap) ==
  LET starts == Marks(o, b, posMap, 0)
      ends == Marks(o, b, posMap, 1)
      wordStart == o.batchWordsStartIdx[b + 1]
      wordEnd == o.batchWordsEndIdx[b + 1]
      pushed(s, en) ==
        /\ en.entity = s.entity
        /\ en.word >= s.word
        /\ InsideValid(o, b, posMap, s, en)
        /\ s.word + 1 \in DOMAIN wordStart
        /\ en.word + 1 \in DOMAIN wordEnd
      cand(s, en) ==
        LET insideCount == IF en.word > s.word THEN en.word - s.word - 1 ELSE 0
            insideTotal == SumInside(o, b, posMap, s.entity, s.word + 1, en.word - 1)
        IN [text |-> Slice(o.texts[b + 1], wordStart[s.word + 1], wordEnd[en.word + 1]),
            label |-> o.entities[s.entity + 1],
            start |-> wordStart[s.word + 1],
            end |-> wordEnd[en.word + 1],
            score |-> AvgScore(s.score + en.score + insideTotal, 2 + insideCount)]
  IN Flatten([i \in 1..Len(starts) |->
       Flatten([j \in 1..Len(ends) |->
         IF pushed(starts[i], ends[j]) THEN <<cand(starts[i], ends[j])>> ELSE <<>>])])

\* decodeTokenLevel(opts)
DecodeTokenLevel(o) ==
  LET posMaps == [b \in 1..o.batchSize |-> OutputPosToTextWord(o.wordsMask[b])]
      cands == [b \in 1..o.batchSize |-> TokenCandidates(o, b - 1, posMaps[b])]
  IN [status |-> "returned", opts |-> o, posMap |-> posMaps,
      candidates |-> cands,
      result |-> [b \in 1..o.batchSize |-> GreedySearch(cands[b])]]

(***************************************************************************)
(* prepareBatch followed by decodeTokenLevel on the session's output.      *)
(***************************************************************************)
DecodeAlphabet == {"e", " "}
MaxDecodeTextLen == 3
\* hot cells of a tensor
MaxHot == 3
DecodeThresholds == {500, 600}
\* tokenizers whose word "e" has three sub-tokens and one
DecodeTokenizers == {1, 3}

\* batches of one text, or of a text and a short second one
DecodeBatches ==
  {<<t>> : t \in SeqsUpTo(DecodeAlphabet, MaxDecodeTextLen)}
    \cup {<<t, u>> : t \in SeqsUpTo(DecodeAlphabet, MaxDecodeTextLen),
                     u \in SeqsUpTo(DecodeAlphabet, MaxSecondTextLen)}

InitDecode ==
  /\ texts \in DecodeBatches
  /\ maxWidth = DefaultMaxWidth
  /\ batch = NoBatch
  /\ tokCall = NoCall
  /\ decode = NoDecode
  /\ win = NoWindows
  /\ text = <<>>
  /\ store = NoFiles
  /\ tokenizer \in DecodeTokenizers
  /\ ortLib = "unloaded"
  /\ sessions = [k \in 1..MaxSessions |-> NoSession]
  /\ session = 0
  /\ ort = FALSE
  /\ config = DefaultConfig
  /\ initialized = FALSE
  /\ isSpanMode = FALSE
  /\ tasks = [t \in Tasks |-> IdleTask]
  /\ allMatches = <<>>
  /\ anonymized = <<>>
  /\ mappings = <<>>

\* the output tensor of a run: dims[1] is the greatest word count of the
\* batch; the hot cells lie in one example
OutputTensors(b0) ==
  LET inputLength == MaxOf({b0.textLengths[b] : b \in 1..Len(b0.textLengths)})
      numEntities == Len(ProcEntities)
      size == Len(b0.textLengths) * inputLength * numEntities * 3
      stride == inputLength * numEntities * 3
  IN {[inputLength |-> inputLength, numEntities |-> numEntities,
       logits |-> [i \in 0..(size - 1) |-> IF i \in hot THEN hv ELSE ColdLogit]] :
        hv \in HotLogits,
        hot \in UNION {SubsetsUpTo((b * stride)..((b + 1) * stride - 1), MaxHot) :
                         b \in 0..(Len(b0.textLengths) - 1)}}

\* decodeTokenLevel on the batch prepareBatch returned and an output tensor
DecodeTokenLevelCall ==
  /\ batch.status = "returned"
  /\ batch.kind = "token"
  /\ decode.status = "none"
  /\ \E out \in OutputTensors(batch), arg \in DecodeThresholds \cup {NoThreshold} :
       decode' = DecodeTokenLevel(
         [logits |-> out.logits, batchSize |-> Len(texts),
          inputLength |-> out.inputLength, numEntities |-> out.numEntities,
          entities |-> ProcEntities, texts |-> texts,
          batchWordsStartIdx |-> batch.batchWordsStartIdx,
          batchWordsEndIdx |-> batch.batchWordsEndIdx,
          wordsMask |-> batch.wordsMask,
          threshold |-> TokenThresholdParam(arg)])
  /\ UNCHANGED <<text, orchVars, tasks, anonVars, texts, maxWidth, batch, tokCall, win>>

NextDecode == PrepareBatch \/ DecodeTokenLevelCall

SpecDecode == InitDecode /\ [][NextDecode]_vars

\* the score of word position w, entity e and kind p of example b
ScoreAt(b, w, e, p) ==
  Sigmoid(LogitAt(decode.opts.logits, decode.opts.inputLength,
                  decode.opts.numEntities, b - 1, w, e, p))

\* C21 -- decodeTokenLevel proposes a candidate from word s to word e with
\* label L exactly when the start score at (s, L) and the end score at
\* (e, L) meet the threshold, e >= s, and the inside score for L of every
\* word strictly between s and e meets the threshold; the candidate is
\* proposed once and its character range is [wordStart[s], wordEnd[e]).
C21_TokenCandidates ==
  decode.status = "returned" =>
    \A b \in 1..Len(texts) :
      LET ws == SplitWords(texts[b])
          th == decode.opts.threshold
          proposed(s, e, l) ==
            {k \in 1..Len(decode.candidates[b]) :
               /\ decode.candidates[b][k].start = ws[s + 1].start
               /\ decode.candidates[b][k].end = ws[e + 1].end
               /\ decode.candidates[b][k].label = ProcEntities[l + 1]}
          expected(s, e, l) ==
            /\ ScoreAt(b, s, l, 0) >= th
            /\ ScoreAt(b, e, l, 1) >= th
            /\ e >= s
            /\ \A w \in (s + 1)..(e - 1) : ScoreAt(b, w, l, 2) >= th
      IN /\ \A s \in 0..(Len(ws) - 1), e \in 0..(Len(ws) - 1),
              l \in 0..(Len(ProcEntities) - 1) :
              Cardinality(proposed(s, e, l)) = IF expected(s, e, l) THEN 1 ELSE 0
         /\ \A k \in 1..Len(decode.candidates[b]) :
              \E s \in 0..(Len(ws) - 1), e \in 0..(Len(ws) - 1),
                 l \in 0..(Len(ProcEntities) - 1) : k \in proposed(s, e, l)

\* three words: start, inside and end of the first label are hot, and the
\* span over all three words is proposed
C21_Witness ==
  /\ decode.status = "returned"
  /\ texts = << <<"e", "e", "e">> >>
  /\ decode.opts.threshold = 500
  /\ ScoreAt(1, 0, 0, 0) = 500
  /\ ScoreAt(1, 1, 0, 2) = 500
  /\ ScoreAt(1, 2, 0, 1) = 500
  /\ Len(decode.candidates[1]) = 1
  /\ decode.candidates[1][1].start = 0
  /\ decode.candidates[1][1].end = 3
  /\ decode.candidates[1][1].label = ProcEntities[1]

\* the hot cells of the tensor as <<example, word position>>
HotPositions ==
  {<<b, w>> \in (1..Len(texts)) \X (0..(decode.opts.inputLength - 1)) :
     \E e \in 0..(decode.opts.numEntities - 1), p \in 0..2 :
       LogitAt(decode.opts.logits, decode.opts.inputLength,
               decode.opts.numEntities, b - 1, w, e, p) # ColdLogit}

\* C22 -- for a batch built by prepareBatch the position mapping sends
\* output position k to text word k for every k below the word count of
\* the example and maps no other position; logits at positions from the
\* word count on produce no candidate and no entity.
C22_PositionMapping ==
  decode.status = "returned" =>
    \A b \in 1..Len(texts) :
      LET n == Len(SplitWords(texts[b]))
      IN /\ decode.posMap[b] = {<<k, k>> : k \in 0..(n - 1)}
         /\ (\A h \in HotPositions : h[1] = b => h[2] >= n)
              => (decode.candidates[b] = <<>> /\ decode.result[b] = <<>>)
         /\ \A k \in 1..Len(decode.result[b]) :
              \E s \in 1..n, e \in 1..n :
                /\ decode.result[b][k].start = SplitWords(texts[b])[s].start
                /\ decode.result[b][k].end = SplitWords(texts[b])[e].end

\* a batch whose second example has one word and two padding positions,
\* with a start and an end above the threshold at its padding positions
C22_Witness ==
  /\ decode.status = "returned"
  /\ tokenizer = 1
  /\ texts = << <<"e", "e", "e">>, <<"e">> >>
  /\ decode.opts.inputLength = 3
  /\ decode.opts.threshold = TOKEN_THRESHOLD
  /\ ScoreAt(2, 1, 0, 0) = 881
  /\ ScoreAt(2, 2, 0, 1) = 881
  /\ decode.posMap[2] = {<<0, 0>>}
  /\ decode.result[2] = <<>>

(***************************************************************************)
(* Runtime provider (onnxRuntime.web.ts, getOrt) on its own.  In this      *)
(* specification ortLib is the state of the provider module: _ort (0 is    *)
(* null), _loading (0 is null, else the call that created the promise),    *)
(* globalThis.ort, the number of script elements appended, and the state   *)
(* of the promise each call created.                                       *)
(***************************************************************************)
\* concurrent callers of getOrt
MaxOrtCallers == 3
OrtCallers == 1..MaxOrtCallers
\* the module the CDN script defines, and one a previous script tag defined
CdnModule == 1
EarlierModule == 2

NoPromise == [st |-> "none", value |-> 0]

\* a provider that never finds a load in progress
NoLoadingGuard(p) == FALSE

\* if (_loading) return _loading
LoadingGuard(p) == p.loading # 0

InitOrtProvider ==
  /\ \E g \in {0, EarlierModule} :
       ortLib = [ort |-> 0, loading |-> 0, global |-> g, scripts |-> 0,
                 promise |-> [t \in OrtCallers |-> NoPromise]]
  /\ tasks = [t \in OrtCallers |-> IdleTask]
  /\ text = <<>>
  /\ store = NoFiles
  /\ sessions = [k \in 1..MaxSessions |-> NoSession]
  /\ session = 0
  /\ ort = FALSE
  /\ config = DefaultConfig
  /\ initialized = FALSE
  /\ isSpanMode = FALSE
  /\ tokenizer = 0
  /\ allMatches = <<>>
  /\ anonymized = <<>>
  /\ mappings = <<>>
  /\ texts = <<>>
  /\ maxWidth = DefaultMaxWidth
  /\ batch = NoBatch
  /\ tokCall = NoCall
  /\ decode = NoDecode
  /\ win = NoWindows

ortFrame == <<text, store, sessions, session, ort, config, initialized, isSpanMode,
              tokenizer, anonVars, procVars>>

\* getOrt() up to its return: the cached module, the promise of the load in
\* progress, or a new load, which runs to its first await
GetOrtCall(t) ==
  /\ tasks[t].pc = "idle"
  /\ tasks[t].status = "idle"
  /\ IF ortLib.ort # 0
     THEN /\ tasks' = [tasks EXCEPT ![t] = Resolve(@, ortLib.ort)]
          /\ UNCHANGED ortLib
     ELSE IF LoadingGuard(ortLib)
     THEN /\ tasks' = [tasks EXCEPT ![t] = [@ EXCEPT !.pc = "await_loading",
                                                     !.status = "running",
                                                     !.sess = ortLib.loading]]
          /\ UNCHANGED ortLib
     ELSE /\ tasks' = [tasks EXCEPT ![t] = [@ EXCEPT !.pc = "await_loading",
                                                     !.status = "running",
                                                     !.sess = t]]
          /\ ortLib' =
               IF ortLib.global # 0
               THEN [ortLib EXCEPT !.loading = t,
                                   !.promise[t] = [st |-> "script_done", value |-> 0]]
               ELSE [ortLib EXCEPT !.loading = t,
                                   !.scripts = @ + 1,
                                   !.promise[t] = [st |-> "await_script", value |-> 0]]
  /\ UNCHANGED ortFrame

\* script.onload, after the script has or has not defined globalThis.ort,
\* or script.onerror
ScriptSettles(t) ==
  /\ ortLib.promise[t].st = "await_script"
  /\ \/ \E g \in {ortLib.global, CdnModule} :
          ortLib' = [ortLib EXCEPT !.global = g, !.promise[t].st = "script_done"]
     \/ ortLib' = [ortLib EXCEPT !.promise[t].st = "rejected"]
  /\ UNCHANGED <<tasks, ortFrame>>

\* the load after its await: _ort = globalThis.ort, throw when it is absent
LoadContinues(t) ==
  /\ ortLib.promise[t].st = "script_done"
  /\ ortLib' = [ortLib EXCEPT
       !.ort = ortLib.global,
       !.promise[t] = IF ortLib.global = 0 THEN [st |-> "rejected", value |-> 0]
                      ELSE [st |-> "resolved", value |-> ortLib.global]]
  /\ UNCHANGED <<tasks, ortFrame>>

\* the caller's await of the promise getOrt returned
GetOrtSettles(t) ==
  /\ tasks[t].pc = "await_loading"
  /\ ortLib.promise[tasks[t].sess].st \in {"resolved", "rejected"}
  /\ tasks' = [tasks EXCEPT ![t] =
       IF ortLib.promise[tasks[t].sess].st = "resolved"
       THEN Resolve(@, ortLib.promise[tasks[t].sess].value)
       ELSE Reject(@)]
  /\ UNCHANGED <<ortLib, ortFrame>>

NextOrtProvider ==
  \E t \in OrtCallers :
    \/ GetOrtCall(t)
    \/ ScriptSettles(t)
    \/ LoadContinues(t)
    \/ GetOrtSettles(t)

SpecOrt == InitOrtProvider /\ [][NextOrtProvider]_vars

\* C25 -- under every interleaving of getOrt calls at most one script
\* element is appended, at most one load is started, and all callers that
\* receive a module receive the same one, the module the provider caches;
\* when the load fails no caller receives a module.
C25_LoadedOnce ==
  /\ ortLib.scripts <= 1
  /\ Cardinality({t \in OrtCallers : ortLib.promise[t].st # "none"}) <= 1
  /\ \A t, u \in OrtCallers :
       (tasks[t].status = "resolved" /\ tasks[u].status = "resolved")
         => (tasks[t].res = tasks[u].res /\ tasks[t].res = ortLib.ort /\ tasks[t].res # 0)
  /\ \A t, u \in OrtCallers :
       ~(tasks[t].status = "resolved" /\ tasks[u].status = "rejected")

\* three callers, two of them while the script was loading, all resolved
\* with the module of the one script
C25_Witness ==
  /\ ortLib.scripts = 1
  /\ \A t \in OrtCallers : tasks[t].status = "resolved" /\ tasks[t].res = CdnModule
  /\ tasks[2].sess = 1
  /\ tasks[3].sess = 1

(***************************************************************************)
(* Inference in flight against disposeGLiNER and initGLiNER.               *)
(***************************************************************************)
\* C26 -- while a detectPII call awaits session.run, the session it runs
\* on is the loaded one and is neither being released nor released: run is
\* never invoked on, and the output names are never read from, a session
\* that was released or a _session that was set to null.
C26_NoUseAfterRelease ==
  \A t \in Tasks :
    Pc(t) = "run" =>
      /\ session = tasks[t].runOn
      /\ sessions[tasks[t].runOn].state = "live"

(***************************************************************************)
(* Re-initialization: initGLiNER on a Ready orchestrator after the store   *)
(* was filled with another download.                                       *)
(***************************************************************************)
\* the orchestrator after a successful initGLiNER on model variant v
ReadyOn(v) ==
  /\ ortLib = "loaded"
  /\ sessions = [k \in 1..MaxSessions |->
                   IF k = 1 THEN [state |-> "live", model |-> v, by |-> "init"]
                   ELSE NoSession]
  /\ session = 1
  /\ ort = TRUE
  /\ config = ParseConfig(v)
  /\ initialized = TRUE
  /\ isSpanMode = ModeOfModel(v)
  /\ tokenizer = InitTokenizer(v)

InitReinit ==
  /\ text = <<>>
  /\ store \in {FullStore(v) : v \in Variants}
  /\ \E v \in Variants : ReadyOn(v)
  /\ tasks = [t \in Tasks |-> IdleTask]
  /\ allMatches = <<>>
  /\ anonymized = <<>>
  /\ mappings = <<>>
  /\ texts = <<>>
  /\ maxWidth = DefaultMaxWidth
  /\ batch = NoBatch
  /\ tokCall = NoCall
  /\ decode = NoDecode
  /\ win = NoWindows

NextReinit ==
  \/ StartInit(1)
  \/ InitLoaded(1)
  \/ InitOrt(1)
  \/ InitCreated(1)

SpecReinit == InitReinit /\ [][NextReinit]_vars

\* C27 -- after an initGLiNER call that failed the orchestrator is as it
\* was before the call: still Ready, with the tokenizer, the config and
\* the span-mode flag of the model its session was created from.
C27_FailedInitKeepsState ==
  (tasks[1].kind = "init" /\ tasks[1].status = "rejected") =>
    /\ initialized
    /\ session # 0
    /\ tokenizer = InitTokenizer(sessions[session].model)
    /\ config = ParseConfig(sessions[session].model)
    /\ isSpanMode = ModeOfModel(sessions[session].model)

(***************************************************************************)
(* downloadGLiNERModel over a model that was stored by an earlier          *)
(* download, when the files behind MODEL_FILES have changed since.         *)
(***************************************************************************)
\* the variant the earlier download stored
EarlierVariant == 2

InitDownload ==
  /\ text = <<>>
  /\ store \in {NoFiles, FullStore(EarlierVariant)}
  /\ InitOrch

NextDownload ==
  \/ \E t \in Tasks : StartManager(t, "check")
  \/ \E t \in Tasks : StartManager(t, "download")
  \/ \E t \in Tasks : ManagerGet(t)
  \/ \E t \in Tasks : ManagerPut(t)

SpecDownload == InitDownload /\ [][NextDownload]_vars

\* a blob the running download wrote, as opposed to one of the earlier model
FromServer(blob) == blob \in {ServerVariant, FalsyJson}

\* C28 -- when checkGLiNERModelExists resolves with true, the three blobs in
\* the store are all of the earlier download or all of the new one: a
\* download that stops partway over a stored model is not reported as an
\* available model made of old and new files.
C28_OneDownload ==
  \A t \in Tasks :
    (tasks[t].kind = "check" /\ tasks[t].status = "resolved" /\ tasks[t].res = TRUE) =>
      /\ FromServer(tasks[t].at.glinerConfig) <=> FromServer(tasks[t].at.tokenizer)
      /\ FromServer(tasks[t].at.tokenizer) <=> FromServer(tasks[t].at.model)

(***************************************************************************)
(* Anonymization: the placeholders of the mapping and the returned text.   *)
(***************************************************************************)
\* C29 -- every placeholder that is a key of the mappings returned by
\* anonymizeTranscription occurs in the returned anonymized text, on the
\* hybrid and on the regex-only path.
C29_PlaceholdersOccur ==
  AnonResolved =>
    \A k \in 1..Len(mappings) : IndexOf(anonymized, mappings[k].key, 0) >= 0

(***************************************************************************)
(* UnigramTokenizer.encodeWord on its own: every short word on every       *)
(* Unigram vocabulary.                                                     *)
(***************************************************************************)
UniTokenizers == {1, 2, 7}

InitViterbi ==
  /\ tokenizer \in UniTokenizers
  /\ tokCall = NoCall
  /\ text = <<>>
  /\ store = NoFiles
  /\ ortLib = "unloaded"
  /\ sessions = [k \in 1..MaxSessions |-> NoSession]
  /\ session = 0
  /\ ort = FALSE
  /\ config = DefaultConfig
  /\ initialized = FALSE
  /\ isSpanMode = FALSE
  /\ tasks = [t \in Tasks |-> IdleTask]
  /\ allMatches = <<>>
  /\ anonymized = <<>>
  /\ mappings = <<>>
  /\ texts = <<>>
  /\ maxWidth = DefaultMaxWidth
  /\ batch = NoBatch
  /\ decode = NoDecode
  /\ win = NoWindows

NextViterbi == EncodeWordCall

SpecViterbi == InitViterbi /\ [][NextViterbi]_vars

RECURSIVE StepsFrom(_, _, _)
\* the steps <<i, j>> of the segmentation of 0..n that is cut at C
StepsFrom(C, n, i) ==
  IF i >= n THEN <<>>
  ELSE LET ends == {c \in C \cup {n} : c > i}
           j == CHOOSE c \in ends : \A d \in ends : c <= d
       IN <<(<<i, j>>)>> \o StepsFrom(C, n, j)

\* every way to cut t into consecutive non-empty parts
Segmentations(t) ==
  {StepsFrom(C, Len(t), 0) : C \in SUBSET (1..(Len(t) - 1))}

\* the part is a piece of the vocabulary
IsPiece(json, t, s) == UniHasScore(json, Slice(t, s[1], s[2]))
\* a single character at whose end no piece of the vocabulary ends
IsFallbackStep(json, t, s) ==
  /\ s[2] = s[1] + 1
  /\ \A k \in 0..s[1] : ~UniHasScore(json, Slice(t, k, s[2]))

StepScore(json, t, s) ==
  IF IsPiece(json, t, s) THEN UniScore(json, Slice(t, s[1], s[2]))
  ELSE IF ByteCovered(json, t[s[2]]) THEN 0 - 100
  ELSE 0 - 200

\* the ids a step stands for: a piece's id, the ids of the byte pieces of
\* the character in either order, or the unknown id
StepIds(json, t, s) ==
  IF IsPiece(json, t, s) THEN {<<UniVocabGet(json, Slice(t, s[1], s[2]))>>}
  ELSE IF ByteCovered(json, t[s[2]])
  THEN LET bytes == Utf8(t[s[2]])
       IN {[k \in 1..Len(bytes) |-> ByteTokenGet(json, bytes[k])],
           [k \in 1..Len(bytes) |-> ByteTokenGet(json, bytes[Len(bytes) + 1 - k])]}
  ELSE {<<UniUnkTokenId(json)>>}

RECURSIVE PathScore(_, _, _)
PathScore(json, t, p) ==
  IF p = <<>> THEN 0 ELSE StepScore(json, t, Head(p)) + PathScore(json, t, Tail(p))

RECURSIVE PathIds(_, _, _)
PathIds(json, t, p) ==
  IF p = <<>> THEN {<<>>}
  ELSE {a \o b : a \in StepIds(json, t, Head(p)), b \in PathIds(json, t, Tail(p))}

\* the segmentations of t into pieces of the vocabulary
VocabSplits(json, t) ==
  {p \in Segmentations(t) : \A k \in 1..Len(p) : IsPiece(json, t, p[k])}
\* the segmentations of t into pieces and fallback characters
ViterbiPaths(json, t) ==
  {p \in Segmentations(t) :
     \A k \in 1..Len(p) : IsPiece(json, t, p[k]) \/ IsFallbackStep(json, t, p[k])}

\* value is the ids of a path of P whose score is maximal in P
BestOf(json, t, P, value) ==
  \E p \in P :
    /\ value \in PathIds(json, t, p)
    /\ \A q \in P : PathScore(json, t, q) <= PathScore(json, t, p)

\* encodeWord returned on a Unigram tokenizer
UniCall ==
  /\ tokCall.fn = "encodeWord"
  /\ tokCall.on # 0
  /\ tokCall.status = "returned"
  /\ IsUnigram(TokenizerJson(tokCall.on))

\* C30 as stated: whenever the normalized form has a segmentation into
\* vocabulary pieces, the ids returned are those of such a segmentation of
\* maximal score
C30_AsStated ==
  UniCall =>
    LET json == TokenizerJson(tokCall.on)
        t == UniInput(tokCall.word)
    IN VocabSplits(json, t) # {} => BestOf(json, t, VocabSplits(json, t), tokCall.value)

\* C30 -- for a word that is not itself an added token, encodeWord returns
\* the ids of a path of maximal score over the normalized form, a path
\* being made of vocabulary pieces and of single characters at whose end no
\* piece ends, which cost 100 when the vocabulary has all byte pieces of the
\* character and 200 otherwise.  When the normalized form can be split into
\* vocabulary pieces with a total score above -100 (no score being
\* positive), the ids are those of a best-scoring such split, whose pieces
\* concatenated give the normalized form.  A word that is an added token is
\* encoded as the id of that token alone.
C30_Viterbi ==
  UniCall =>
    LET json == TokenizerJson(tokCall.on)
        t == UniInput(tokCall.word)
        splits == VocabSplits(json, t)
    IN IF AddedGet(json, tokCall.word) # Undefined
       THEN tokCall.value = <<AddedGet(json, tokCall.word)>>
       ELSE /\ BestOf(json, t, ViterbiPaths(json, t), tokCall.value)
            /\ (\E p \in splits : PathScore(json, t, p) > 0 - 100)
                 => BestOf(json, t, splits, tokCall.value)

\* a word with two segmentations into pieces, encoded as the better one
C30_Witness ==
  /\ UniCall
  /\ tokCall.on = 7
  /\ tokCall.word = <<"a", "b">>
  /\ Cardinality(VocabSplits(TokenizerJson(7), UniInput(tokCall.word))) = 2
  /\ tokCall.value = <<3, 5>>

====
